---- MODULE Spec2Model ----
(***************************************************************************)
(* Speaker-recognition service (hackers365/voice_server).                  *)
(*                                                                         *)
(* Strings that the code formats or hashes byte by byte (uid, agent_id,    *)
(* speaker_id, speaker_name, uuid) are sequences of byte values, "" is     *)
(* <<>>.  Message texts, which the code only copies, are TLA+ strings.     *)
(* Audio samples are float32 values in fixed point, 1024 = 1.0.            *)
(* Similarity scores and thresholds are in hundredths (100 = 1.0).         *)
(***************************************************************************)
EXTENDS Integers, Sequences, FiniteSets, TLC

VARIABLES
  store,        \* the collection of the vector store: a set of points
  iso,          \* ghost: per uid, the store had only that uid's requests run
  resp,         \* the last response, with its request, the fault injected
                \* while it was served, the store before it and its queries
  clock,        \* the last time.Now().Unix() a registration read
  writes,       \* ghost: the successful upserts, oldest first
  vadEnabled,   \* Manager.vadPool != nil
  session,      \* a StreamingIdentifier driven directly through its methods
  sessionLog,   \* ghost: what each call on session returned and did
  goroutines,   \* goroutines running at once: inside the methods of session
                \* with its mutex, or request workers inside an enrolment
  ws,           \* one WebSocket connection served by IdentifySpeakerWebSocket
  out           \* the messages the WebSocket handler wrote in its last step

httpVars == <<store, iso, resp, clock, writes, vadEnabled>>
siVars == <<session, sessionLog, goroutines>>
wsVars == <<ws, out>>
vars == <<store, iso, resp, clock, writes, vadEnabled, session, sessionLog,
          goroutines, ws, out>>

-----------------------------------------------------------------------------
(* Bounds of the model *)

MaxWrites == 2      \* successful upserts in one behaviour
MaxClock == 1       \* seconds the clock advances
MaxChunks == 2      \* binary frames accepted in one round
MaxRounds == 2      \* finish actions on one connection
MaxCancels == 1     \* cancel actions on one connection
MaxCalls == 4       \* direct calls on one StreamingIdentifier
MaxTrimLen == 6     \* samples of a buffer given to the VAD trimming
MaxGoroutines == 3  \* goroutines calling one StreamingIdentifier at once
MaxVadLen == 3      \* samples of a buffer whose conversion for the VAD is followed
MaxWorkers == 2     \* request workers enrolling at once

(* Configuration values *)

DefaultThreshold == 60   \* Manager.threshold
EmbeddingDim == 2        \* Manager.embeddingDim = extractor.Dim()
HopSize == 2             \* config VAD.TenVAD.HopSize
ScrollLimit == 10000     \* limit of every Scroll request
MinReadySamples == 2     \* samples the extractor needs before IsReady

-----------------------------------------------------------------------------
(* Identifiers, as byte strings *)

EmptyStr == <<>>
StrA == <<97>>                \* "a"
StrAB == <<97, 58, 98>>       \* "a:b"
StrBC == <<98, 58, 99>>       \* "b:c"
StrC == <<99>>                \* "c"
StrS == <<115>>               \* "s"
StrT == <<116>>               \* "t"
NameAlice == <<65>>           \* "A"
NameBob == <<66>>             \* "B"
Uuid1 == <<85, 49>>           \* "U1"
Uuid2 == <<85, 50>>           \* "U2"
Colon == <<58>>               \* ":"

Uids == {StrA, StrAB}
AgentIds == {StrBC, StrC}
SpeakerIds == {StrS, StrT}

Max(a, b) == IF a >= b THEN a ELSE b
Min(a, b) == IF a <= b THEN a ELSE b
SetMin(S) == CHOOSE x \in S : \A y \in S : x <= y
SetMax(S) == CHOOSE x \in S : \A y \in S : x >= y

\* the character of a byte of an identifier, as %s prints it
Chr(b) ==
  CASE b = 49 -> "1" [] b = 50 -> "2" [] b = 58 -> ":" [] b = 65 -> "A"
    [] b = 66 -> "B" [] b = 85 -> "U" [] b = 97 -> "a" [] b = 98 -> "b"
    [] b = 99 -> "c" [] b = 115 -> "s" [] b = 116 -> "t" [] OTHER -> "?"

\* an identifier as it appears in an error text
RECURSIVE Text(_)
Text(bytes) ==
  IF bytes = <<>> THEN "" ELSE Chr(Head(bytes)) \o Text(Tail(bytes))

\* strings.Contains
Contains(str, substr) ==
  \E i \in 1..(Len(str) - Len(substr) + 1) :
    SubSeq(str, i, i + Len(substr) - 1) = substr

-----------------------------------------------------------------------------
(* generatePointID: FNV-1a, 64 bit, over "uid:agent_id:speaker_id:index".   *)
(* A 64-bit value is its 8 bytes, least significant first.                 *)

RECURSIVE XorBits(_, _, _)
XorBits(a, b, n) ==
  IF n = 0 THEN 0
  ELSE (((a % 2) + (b % 2)) % 2) + 2 * XorBits(a \div 2, b \div 2, n - 1)

RECURSIVE MulSmall(_, _, _, _)
MulSmall(h, m, i, carry) ==
  IF i > Len(h) THEN <<>>
  ELSE LET t == h[i] * m + carry
       IN  <<(t % 256)>> \o MulSmall(h, m, i + 1, t \div 256)

RECURSIVE AddLimbs(_, _, _, _)
AddLimbs(a, b, i, carry) ==
  IF i > Len(a) THEN <<>>
  ELSE LET t == a[i] + b[i] + carry
       IN  <<(t % 256)>> \o AddLimbs(a, b, i + 1, t \div 256)

\* offset basis 0xcbf29ce484222325; prime 0x100000001b3 = 2^40 + 0x1b3
FnvOffset64 == <<37, 35, 34, 132, 228, 156, 242, 203>>
FnvPrimeLow == 435
FnvPrimeShiftBytes == 5

FnvMulPrime(h) ==
  AddLimbs(MulSmall(h, FnvPrimeLow, 1, 0),
           [i \in 1..8 |-> IF i <= FnvPrimeShiftBytes THEN 0
                           ELSE h[i - FnvPrimeShiftBytes]],
           1, 0)

RECURSIVE Fnv1a64(_, _, _)
Fnv1a64(h, bytes, i) ==
  IF i > Len(bytes) THEN h
  ELSE Fnv1a64(FnvMulPrime([h EXCEPT ![1] = XorBits(h[1], bytes[i], 8)]),
               bytes, i + 1)

\* fmt's %d of a non-negative int
RECURSIVE FormatInt(_)
FormatInt(n) ==
  IF n < 10 THEN <<48 + n>> ELSE FormatInt(n \div 10) \o <<48 + (n % 10)>>

\* fmt.Sprintf("%s:%s:%s:%d", uid, agentID, speakerID, sampleIndex)
PointKey(uid, agentID, speakerID, sampleIndex) ==
  uid \o Colon \o agentID \o Colon \o speakerID \o Colon \o FormatInt(sampleIndex)

\* the hash of every key the model can form, computed once
PointIDs ==
  [key \in {PointKey(u, a, sp, i) :
              u \in Uids, a \in AgentIds, sp \in SpeakerIds \cup {EmptyStr},
              i \in 0..(MaxWrites + 1)} |->
     Fnv1a64(FnvOffset64, key, 1)]

generatePointID(uid, agentID, speakerID, sampleIndex) ==
  PointIDs[PointKey(uid, agentID, speakerID, sampleIndex)]

-----------------------------------------------------------------------------
(* The embedding extractor (sherpa-onnx), by its contract: a stream is the  *)
(* samples pushed so far; it is ready once it holds MinReadySamples; the    *)
(* embedding is a fixed function of the samples, here the energy of the     *)
(* positive and of the negative samples: silence added or cut leaves it.    *)

\* the sum of the samples of one sign (1 or -1) from index i on
RECURSIVE SumOfSign(_, _, _)
SumOfSign(samples, sign, i) ==
  IF i > Len(samples) THEN 0
  ELSE Max(sign * samples[i], 0) + SumOfSign(samples, sign, i + 1)

IsReady(samples) == Len(samples) >= MinReadySamples

\* fault names the external call that misbehaves while an operation runs
\* ("none": no call does): the extractor returns no embedding or one of
\* another dimension, a store request fails, the VAD pool or classifier fails
\* the text of the error an external call returns
Cause == "unavailable"

Faults ==
  {"none", "compute-empty", "compute-short", "count", "insert", "search",
   "info", "scroll", "delete", "vad-get", "vad-type", "vad-process"}

Compute(samples, fault) ==
  CASE fault = "compute-empty" -> <<>>
    [] fault = "compute-short" -> <<SumOfSign(samples, 1, 1) \div 512>>
    [] OTHER -> <<SumOfSign(samples, 1, 1) \div 512, SumOfSign(samples, -1, 1) \div 512>>

extractEmbedding(audioData, fault) ==
  IF ~IsReady(audioData)
  THEN [err |-> "insufficient audio data for embedding extraction", embedding |-> <<>>]
  ELSE LET embedding == Compute(audioData, fault)
       IN  IF Len(embedding) = 0
           THEN [err |-> "failed to extract embedding", embedding |-> <<>>]
           ELSE [err |-> "", embedding |-> embedding]

-----------------------------------------------------------------------------
(* The vector store (Qdrant), by its contract: cosine score of the stored  *)
(* and the query vector, in hundredths rounded down; upsert by point id;   *)
(* filtered top-1 query; filtered scroll.                                  *)

RECURSIVE Dot(_, _, _)
Dot(a, b, i) ==
  IF i > Len(a) \/ i > Len(b) THEN 0 ELSE a[i] * b[i] + Dot(a, b, i + 1)

\* the largest k in lo..hi with k * k * n <= t
RECURSIVE RootFloor(_, _, _, _)
RootFloor(lo, hi, n, t) ==
  IF lo >= hi THEN lo
  ELSE LET mid == (lo + hi + 1) \div 2
       IN  IF mid * mid * n <= t THEN RootFloor(mid, hi, n, t)
           ELSE RootFloor(lo, mid - 1, n, t)

\* 100 * cos(a, b) rounded down; 0 when a vector is zero
CosineScore(a, b) ==
  LET d == Dot(a, b, 1)
      n == Dot(a, a, 1) * Dot(b, b, 1)
      k == RootFloor(0, 100, n, 10000 * d * d)
  IN  IF n = 0 THEN 0
      ELSE IF d >= 0 THEN k
      ELSE IF k * k * n = 10000 * d * d THEN -k ELSE -(k + 1)

Matches(must, p) ==
  \A i \in 1..Len(must) : p.payload[must[i].key] = must[i].value

Matching(points, query) ==
  {p \in points : query.hasFilter => Matches(query.must, p)}

\* the answers the store may give to a top-1 query: no point, or any of
\* the matching points with the highest score
StoreQuery(points, query) ==
  LET scored == {[payload |-> p.payload, score |-> CosineScore(p.vector, query.vector)] :
                   p \in Matching(points, query)}
  IN  IF scored = {} THEN {<<>>}
      ELSE {<<h>> : h \in {x \in scored : \A o \in scored : o.score <= x.score}}

StoreUpsert(points, point) ==
  {p \in points : p.id # point.id} \cup {point}

StoreScrollCount(points, must) ==
  Min(Cardinality({p \in points : Matches(must, p)}), ScrollLimit)

\* the order of two point ids as unsigned 64-bit numbers
IdLess(a, b) ==
  \E i \in 1..8 : a[i] < b[i] /\ \A j \in (i + 1)..8 : a[j] = b[j]

RECURSIVE SortById(_)
SortById(S) ==
  IF S = {} THEN <<>>
  ELSE LET first == CHOOSE p \in S : \A q \in S \ {p} : IdLess(p.id, q.id)
       IN  <<first>> \o SortById(S \ {first})

\* a scroll request: the matching points in the order of their ids, up to
\* the limit of the request
StoreScroll(points, must) ==
  LET all == SortById({p \in points : Matches(must, p)})
  IN  SubSeq(all, 1, Min(Len(all), ScrollLimit))

\* a delete request with a list of point ids
StoreDelete(points, ids) == {p \in points : p.id \notin ids}

Cond(key, value) == [key |-> key, value |-> value]

-----------------------------------------------------------------------------
(* QdrantVectorDB *)

OptionalConditions_KeepEmpty(uid, agentID, speakerID, speakerName) ==
  <<Cond("uid", uid), Cond("agent_id", agentID), Cond("speaker_id", speakerID),
    Cond("speaker_name", speakerName)>>

\* the conditions SearchWithOptionalFilters collects, in its order
OptionalConditions(uid, agentID, speakerID, speakerName) ==
  (IF uid # EmptyStr THEN <<Cond("uid", uid)>> ELSE <<>>)
  \o (IF agentID # EmptyStr THEN <<Cond("agent_id", agentID)>> ELSE <<>>)
  \o (IF speakerID # EmptyStr THEN <<Cond("speaker_id", speakerID)>> ELSE <<>>)
  \o (IF speakerName # EmptyStr THEN <<Cond("speaker_name", speakerName)>> ELSE <<>>)

\* the QueryPoints request of SearchWithOptionalFilters; the filter is set
\* only when there is a condition.  The query vector is L2-normalised by
\* the client: the cosine score does not depend on its length.
OptionalQuery(uid, agentID, speakerID, speakerName, queryEmbedding, topK) ==
  LET conditions == OptionalConditions(uid, agentID, speakerID, speakerName)
  IN  [hasFilter |-> Len(conditions) > 0,
       must |-> conditions,
       limit |-> IF topK = 0 THEN 1 ELSE topK,
       vector |-> queryEmbedding]

Clamp(score) ==
  IF score < -100 THEN -100 ELSE IF score > 100 THEN 100 ELSE score

\* a scored point that came without payload
NilPayload == [nil |-> TRUE]

RECURSIVE ConvertResults_CompareRaw(_, _, _)
ConvertResults_CompareRaw(searchPoints, threshold, i) ==
  IF i > Len(searchPoints) THEN <<>>
  ELSE LET payload == searchPoints[i].payload
           confidence == Clamp(searchPoints[i].score)
       IN  (IF payload = NilPayload \/ searchPoints[i].score < threshold THEN <<>>
            ELSE <<[SpeakerID |-> payload.speaker_id,
                    SpeakerName |-> payload.speaker_name,
                    Confidence |-> confidence,
                    Distance |-> 100 - confidence,
                    SampleIndex |-> payload.sample_index]>>)
           \o ConvertResults_CompareRaw(searchPoints, threshold, i + 1)

\* the conversion loop of both searches: skip a point without payload,
\* clamp, drop below the threshold
RECURSIVE ConvertResults(_, _, _)
ConvertResults(searchPoints, threshold, i) ==
  IF i > Len(searchPoints) THEN <<>>
  ELSE LET payload == searchPoints[i].payload
           confidence == Clamp(searchPoints[i].score)
       IN  (IF payload = NilPayload \/ confidence < threshold THEN <<>>
            ELSE <<[SpeakerID |-> payload.speaker_id,
                    SpeakerName |-> payload.speaker_name,
                    Confidence |-> confidence,
                    Distance |-> 100 - confidence,
                    SampleIndex |-> payload.sample_index]>>)
           \o ConvertResults(searchPoints, threshold, i + 1)

\* every way SearchWithOptionalFilters can return on these points
SearchWithOptionalFilters(points, uid, agentID, speakerID, speakerName, queryEmbedding, threshold, topK, fault) ==
  LET query == OptionalQuery(uid, agentID, speakerID, speakerName, queryEmbedding, topK)
  IN  IF fault = "search"
      THEN {[err |-> "failed to search: " \o Cause, results |-> <<>>, query |-> query]}
      ELSE {[err |-> "", results |-> ConvertResults(a, threshold, 1), query |-> query] :
              a \in StoreQuery(points, query)}

\* the conditions of GetSpeakerSampleCount, GetSpeakerInfo, SearchWithFilter
\* and DeleteSpeaker
StrictConditions_NoSpeaker(uid, agentID, speakerID) ==
  <<Cond("uid", uid)>>
  \o (IF agentID # EmptyStr THEN <<Cond("agent_id", agentID)>> ELSE <<>>)

StrictConditions(uid, agentID, speakerID) ==
  <<Cond("uid", uid), Cond("speaker_id", speakerID)>>
  \o (IF agentID # EmptyStr THEN <<Cond("agent_id", agentID)>> ELSE <<>>)

GetSpeakerSampleCount(points, uid, agentID, speakerID, fault) ==
  IF fault = "count" THEN [err |-> "failed to scroll points: " \o Cause, count |-> 0]
  ELSE [err |-> "",
        count |-> StoreScrollCount(points, StrictConditions(uid, agentID, speakerID))]

\* the conditions are always sent as a filter; the query vector goes as it
\* is
StrictQuery(uid, agentID, speakerID, queryEmbedding, topK) ==
  [hasFilter |-> TRUE,
   must |-> StrictConditions(uid, agentID, speakerID),
   limit |-> IF topK = 0 THEN 1 ELSE topK,
   vector |-> queryEmbedding]

\* every way SearchWithFilter can return on these points
SearchWithFilter(points, uid, agentID, speakerID, queryEmbedding, threshold, topK, fault) ==
  LET query == StrictQuery(uid, agentID, speakerID, queryEmbedding, topK)
  IN  IF fault = "search"
      THEN {[err |-> "failed to search: " \o Cause, results |-> <<>>, query |-> query]}
      ELSE {[err |-> "", results |-> ConvertResults(a, threshold, 1), query |-> query] :
              a \in StoreQuery(points, query)}

NoInfo == [ID |-> EmptyStr, Name |-> EmptyStr, SampleCount |-> 0,
           CreatedAt |-> 0, UpdatedAt |-> 0]

\* fault "info": the Scroll request of GetSpeakerInfo failed
GetSpeakerInfo(points, uid, agentID, speakerID, fault) ==
  LET scrollResult == StoreScroll(points, StrictConditions(uid, agentID, speakerID))
      times(key) == {scrollResult[i].payload[key] : i \in 1..Len(scrollResult)}
  IN  IF fault = "info"
      THEN [err |-> "failed to scroll points: " \o Cause, info |-> NoInfo]
      ELSE IF Len(scrollResult) = 0
      THEN [err |-> "speaker " \o Text(speakerID) \o " not found", info |-> NoInfo]
      ELSE [err |-> "",
            info |-> [ID |-> speakerID,
                      Name |-> scrollResult[1].payload.speaker_name,
                      SampleCount |-> Len(scrollResult),
                      CreatedAt |-> SetMin(times("created_at")),
                      UpdatedAt |-> SetMax(times("updated_at"))]]

\* the ids a delete collects with its scroll
ScrolledIds(points, must) ==
  LET scrollResult == StoreScroll(points, must)
  IN  {scrollResult[i].id : i \in 1..Len(scrollResult)}

DeleteSpeaker_AnyAgent(points, uid, agentID, speakerID, fault) ==
  LET ids == ScrolledIds(points, StrictConditions(uid, EmptyStr, speakerID))
  IN  IF fault = "scroll"
      THEN [err |-> "failed to scroll points: " \o Cause, store |-> points]
      ELSE IF ids = {} THEN [err |-> "", store |-> points]
      ELSE IF fault = "delete"
      THEN [err |-> "failed to delete points: " \o Cause, store |-> points]
      ELSE [err |-> "", store |-> StoreDelete(points, ids)]

\* fault "scroll": the Scroll request failed; "delete": the Delete request
DeleteSpeaker(points, uid, agentID, speakerID, fault) ==
  LET ids == ScrolledIds(points, StrictConditions(uid, agentID, speakerID))
  IN  IF fault = "scroll"
      THEN [err |-> "failed to scroll points: " \o Cause, store |-> points]
      ELSE IF ids = {} THEN [err |-> "", store |-> points]
      ELSE IF fault = "delete"
      THEN [err |-> "failed to delete points: " \o Cause, store |-> points]
      ELSE [err |-> "", store |-> StoreDelete(points, ids)]

UUIDConditions(uid, agentID, uuid) ==
  <<Cond("uid", uid), Cond("uuid", uuid)>>
  \o (IF agentID # EmptyStr THEN <<Cond("agent_id", agentID)>> ELSE <<>>)

DeleteSpeakerByUUID_SilentOnZero(points, uid, agentID, uuid, fault) ==
  LET ids == ScrolledIds(points, UUIDConditions(uid, agentID, uuid))
  IN  IF fault = "scroll"
      THEN [err |-> "failed to scroll points: " \o Cause, store |-> points]
      ELSE IF ids = {} THEN [err |-> "", store |-> points]
      ELSE IF fault = "delete"
      THEN [err |-> "failed to delete points: " \o Cause, store |-> points]
      ELSE [err |-> "", store |-> StoreDelete(points, ids)]

DeleteSpeakerByUUID(points, uid, agentID, uuid, fault) ==
  LET ids == ScrolledIds(points, UUIDConditions(uid, agentID, uuid))
  IN  IF fault = "scroll"
      THEN [err |-> "failed to scroll points: " \o Cause, store |-> points]
      ELSE IF ids = {}
      THEN [err |-> "speaker with uuid " \o Text(uuid) \o " not found for uid "
                      \o Text(uid),
            store |-> points]
      ELSE IF fault = "delete"
      THEN [err |-> "failed to delete points: " \o Cause, store |-> points]
      ELSE [err |-> "", store |-> StoreDelete(points, ids)]

\* the conditions of GetAllSpeakers
ListConditions(uid, agentID) ==
  <<Cond("uid", uid)>>
  \o (IF agentID # EmptyStr THEN <<Cond("agent_id", agentID)>> ELSE <<>>)

\* the SpeakerInfo GetAllSpeakers keeps under the key speakerID: made from
\* the first scrolled point with that speaker_id, counting every such point,
\* with the earliest created_at and the latest updated_at among the first
\* point's and the positive ones
AggregateBySpeaker(scrollResult, speakerID) ==
  LET of == {i \in 1..Len(scrollResult) : scrollResult[i].payload.speaker_id = speakerID}
      first == scrollResult[SetMin(of)].payload
      times(key) == {first[key]}
                      \cup ({scrollResult[i].payload[key] : i \in of} \ {0})
  IN  [ID |-> speakerID, Name |-> first.speaker_name, UUID |-> first.uuid,
       AgentID |-> first.agent_id, SampleCount |-> Cardinality(of),
       CreatedAt |-> SetMin(times("created_at")),
       UpdatedAt |-> SetMax(times("updated_at"))]

\* fault "scroll": the Scroll request failed.  The speakers are a set: the
\* code returns them in the order of a map iteration
GetAllSpeakers(points, uid, agentID, fault) ==
  LET scrollResult == StoreScroll(points, ListConditions(uid, agentID))
      keys == {scrollResult[i].payload.speaker_id : i \in 1..Len(scrollResult)}
                \ {EmptyStr}
  IN  IF fault = "scroll"
      THEN [err |-> "failed to scroll points: " \o Cause, speakers |-> {}]
      ELSE [err |-> "",
            speakers |-> {AggregateBySpeaker(scrollResult, k) : k \in keys}]

NewPoint_AgentIsUid(uid, agentID, speakerID, speakerName, uuid, embedding, sampleIndex, createdAt, updatedAt) ==
  [id |-> generatePointID(uid, agentID, speakerID, sampleIndex),
   vector |-> embedding,
   payload |-> [uid |-> uid, agent_id |-> uid, speaker_id |-> speakerID,
                speaker_name |-> speakerName, uuid |-> uuid,
                sample_index |-> sampleIndex,
                created_at |-> createdAt, updated_at |-> updatedAt]]

\* the point Insert builds
NewPoint(uid, agentID, speakerID, speakerName, uuid, embedding, sampleIndex, createdAt, updatedAt) ==
  [id |-> generatePointID(uid, agentID, speakerID, sampleIndex),
   vector |-> embedding,
   payload |-> [uid |-> uid, agent_id |-> agentID, speaker_id |-> speakerID,
                speaker_name |-> speakerName, uuid |-> uuid,
                sample_index |-> sampleIndex,
                created_at |-> createdAt, updated_at |-> updatedAt]]

Insert_KeepFirst(points, uid, agentID, speakerID, speakerName, uuid, embedding, sampleIndex, createdAt, updatedAt, fault) ==
  LET point == NewPoint(uid, agentID, speakerID, speakerName, uuid, embedding,
                        sampleIndex, createdAt, updatedAt)
  IN  IF fault = "insert" THEN [err |-> "failed to insert point: " \o Cause, store |-> points]
      ELSE [err |-> "",
            store |-> IF \E p \in points : p.id = point.id THEN points
                      ELSE points \cup {point}]

\* fault "insert": ensureCollectionExists or the Upsert request failed
Insert(points, uid, agentID, speakerID, speakerName, uuid, embedding, sampleIndex, createdAt, updatedAt, fault) ==
  IF fault = "insert" THEN [err |-> "failed to insert point: " \o Cause, store |-> points]
  ELSE [err |-> "",
        store |-> StoreUpsert(points,
                    NewPoint(uid, agentID, speakerID, speakerName, uuid, embedding,
                             sampleIndex, createdAt, updatedAt))]

-----------------------------------------------------------------------------
(* Manager *)

NoPoint == [id |-> <<>>, vector |-> <<>>, payload |-> <<>>]

RegisterFailed(points, err) ==
  [err |-> err, store |-> points, wrote |-> FALSE, point |-> NoPoint, countOk |-> FALSE]

RegisterSpeaker_AbortOnCountError(points, uid, agentID, speakerID, speakerName, uuid, audioData, fault, now) ==
  IF uid = EmptyStr THEN RegisterFailed(points, "uid is required")
  ELSE IF agentID = EmptyStr THEN RegisterFailed(points, "agent_id is required")
  ELSE IF uuid = EmptyStr THEN RegisterFailed(points, "uuid is required")
  ELSE
    LET e == extractEmbedding(audioData, fault)
    IN  IF e.err # "" THEN RegisterFailed(points, "failed to extract embedding: " \o e.err)
        ELSE IF Len(e.embedding) # EmbeddingDim
        THEN RegisterFailed(points,
               "embedding dimension mismatch: expected " \o ToString(EmbeddingDim)
                 \o ", got " \o ToString(Len(e.embedding)))
        ELSE
          LET c == GetSpeakerSampleCount(points, uid, agentID, speakerID, fault)
              r == Insert(points, uid, agentID, speakerID, speakerName, uuid,
                          e.embedding, c.count, now, now, fault)
          IN  IF c.err # "" THEN RegisterFailed(points, c.err)
              ELSE IF r.err # ""
              THEN RegisterFailed(points, "failed to insert to vector database: " \o r.err)
              ELSE [err |-> "", store |-> r.store, wrote |-> TRUE,
                    point |-> NewPoint(uid, agentID, speakerID, speakerName, uuid,
                                       e.embedding, c.count, now, now),
                    countOk |-> TRUE]

RegisterSpeaker_NoDimensionCheck(points, uid, agentID, speakerID, speakerName, uuid, audioData, fault, now) ==
  IF uid = EmptyStr THEN RegisterFailed(points, "uid is required")
  ELSE IF agentID = EmptyStr THEN RegisterFailed(points, "agent_id is required")
  ELSE IF uuid = EmptyStr THEN RegisterFailed(points, "uuid is required")
  ELSE
    LET e == extractEmbedding(audioData, fault)
    IN  IF e.err # "" THEN RegisterFailed(points, "failed to extract embedding: " \o e.err)
        ELSE
          LET c == GetSpeakerSampleCount(points, uid, agentID, speakerID, fault)
              sampleIndex == IF c.err # "" THEN 0 ELSE c.count
              r == Insert(points, uid, agentID, speakerID, speakerName, uuid,
                          e.embedding, sampleIndex, now, now, fault)
          IN  IF r.err # ""
              THEN RegisterFailed(points, "failed to insert to vector database: " \o r.err)
              ELSE [err |-> "", store |-> r.store, wrote |-> TRUE,
                    point |-> NewPoint(uid, agentID, speakerID, speakerName, uuid,
                                       e.embedding, sampleIndex, now, now),
                    countOk |-> c.err = ""]

\* Manager.RegisterSpeaker
RegisterSpeaker(points, uid, agentID, speakerID, speakerName, uuid, audioData, fault, now) ==
  IF uid = EmptyStr THEN RegisterFailed(points, "uid is required")
  ELSE IF agentID = EmptyStr THEN RegisterFailed(points, "agent_id is required")
  ELSE IF uuid = EmptyStr THEN RegisterFailed(points, "uuid is required")
  ELSE
    LET e == extractEmbedding(audioData, fault)
    IN  IF e.err # "" THEN RegisterFailed(points, "failed to extract embedding: " \o e.err)
        ELSE IF Len(e.embedding) # EmbeddingDim
        THEN RegisterFailed(points,
               "embedding dimension mismatch: expected " \o ToString(EmbeddingDim)
                 \o ", got " \o ToString(Len(e.embedding)))
        ELSE
          LET c == GetSpeakerSampleCount(points, uid, agentID, speakerID, fault)
              sampleIndex == IF c.err # "" THEN 0 ELSE c.count
              r == Insert(points, uid, agentID, speakerID, speakerName, uuid,
                          e.embedding, sampleIndex, now, now, fault)
          IN  IF r.err # ""
              THEN RegisterFailed(points, "failed to insert to vector database: " \o r.err)
              ELSE [err |-> "", store |-> r.store, wrote |-> TRUE,
                    point |-> NewPoint(uid, agentID, speakerID, speakerName, uuid,
                                       e.embedding, sampleIndex, now, now),
                    countOk |-> c.err = ""]

NoResult ==
  [Identified |-> FALSE, SpeakerID |-> EmptyStr, SpeakerName |-> EmptyStr,
   Confidence |-> 0, Threshold |-> 0]

\* the threshold of a call: the one given when > 0, else the default
UseThreshold_AlwaysDefault(threshold) == DefaultThreshold

UseThreshold(threshold) ==
  IF threshold > 0 THEN threshold ELSE DefaultThreshold

BuildIdentifyResult_AlwaysIdentified(results, useThreshold) ==
  IF Len(results) > 0
  THEN [Identified |-> TRUE, SpeakerID |-> results[1].SpeakerID,
        SpeakerName |-> results[1].SpeakerName,
        Confidence |-> results[1].Confidence, Threshold |-> useThreshold]
  ELSE [Identified |-> TRUE, SpeakerID |-> EmptyStr, SpeakerName |-> EmptyStr,
        Confidence |-> 0, Threshold |-> useThreshold]

\* the IdentifyResult built from the results of the search
BuildIdentifyResult(results, useThreshold) ==
  IF Len(results) > 0
  THEN [Identified |-> TRUE, SpeakerID |-> results[1].SpeakerID,
        SpeakerName |-> results[1].SpeakerName,
        Confidence |-> results[1].Confidence, Threshold |-> useThreshold]
  ELSE [Identified |-> FALSE, SpeakerID |-> EmptyStr, SpeakerName |-> EmptyStr,
        Confidence |-> 0, Threshold |-> useThreshold]

\* every way Manager.IdentifySpeaker can return; threshold 0: none given
IdentifySpeaker(points, uid, agentID, speakerID, speakerName, audioData, threshold, fault) ==
  LET useThreshold == UseThreshold(threshold)
      e == extractEmbedding(audioData, fault)
  IN  IF e.err # ""
      THEN {[err |-> "failed to extract embedding: " \o e.err,
             result |-> NoResult, queries |-> <<>>]}
      ELSE {[err |-> IF s.err # "" THEN "failed to search in vector database: " \o s.err
                     ELSE "",
             result |-> IF s.err # "" THEN NoResult
                        ELSE BuildIdentifyResult(s.results, useThreshold),
             queries |-> <<s.query>>] :
              s \in SearchWithOptionalFilters(points, uid, agentID, speakerID,
                                              speakerName, e.embedding, useThreshold, 1,
                                              fault)}

NoVerify ==
  [SpeakerID |-> EmptyStr, SpeakerName |-> EmptyStr, Verified |-> FALSE,
   Confidence |-> 0, Threshold |-> 0]

VerifyFailed(err, queries) == [err |-> err, result |-> NoVerify, queries |-> queries]

\* every way Manager.VerifySpeaker can return
VerifySpeaker(points, uid, agentID, speakerID, audioData, fault) ==
  LET e == extractEmbedding(audioData, fault)
      speakerInfo == GetSpeakerInfo(points, uid, agentID, speakerID, fault)
  IN  IF uid = EmptyStr THEN {VerifyFailed("uid is required", <<>>)}
      ELSE IF e.err # ""
      THEN {VerifyFailed("failed to extract embedding: " \o e.err, <<>>)}
      ELSE {IF s.err # ""
            THEN VerifyFailed("failed to search in vector database: " \o s.err,
                              <<s.query>>)
            ELSE IF Len(s.results) > 0
            THEN [err |-> "",
                  result |-> [SpeakerID |-> speakerID,
                              SpeakerName |-> s.results[1].SpeakerName,
                              Verified |-> TRUE,
                              Confidence |-> s.results[1].Confidence,
                              Threshold |-> DefaultThreshold],
                  queries |-> <<s.query>>]
            ELSE IF speakerInfo.err # ""
            THEN VerifyFailed("speaker " \o Text(speakerID) \o " not found",
                              <<s.query>>)
            ELSE [err |-> "",
                  result |-> [SpeakerID |-> speakerID,
                              SpeakerName |-> speakerInfo.info.Name,
                              Verified |-> FALSE,
                              Confidence |-> 0,
                              Threshold |-> DefaultThreshold],
                  queries |-> <<s.query>>] :
            s \in SearchWithFilter(points, uid, agentID, speakerID, e.embedding,
                                   DefaultThreshold, 1, fault)}

\* Manager.DeleteSpeaker
ManagerDeleteSpeaker(points, uid, agentID, speakerID, fault) ==
  LET r == DeleteSpeaker(points, uid, agentID, speakerID, fault)
  IN  IF uid = EmptyStr THEN [err |-> "uid is required", store |-> points]
      ELSE IF r.err # ""
      THEN [err |-> "failed to delete from vector database: " \o r.err,
            store |-> points]
      ELSE r

\* Manager.DeleteSpeakerByUUID
ManagerDeleteSpeakerByUUID(points, uid, agentID, uuid, fault) ==
  LET r == DeleteSpeakerByUUID(points, uid, agentID, uuid, fault)
  IN  IF uid = EmptyStr THEN [err |-> "uid is required", store |-> points]
      ELSE IF uuid = EmptyStr THEN [err |-> "uuid is required", store |-> points]
      ELSE IF r.err # ""
      THEN [err |-> "failed to delete from vector database: " \o r.err,
            store |-> points]
      ELSE r

\* Manager.GetAllSpeakers: an error of the store is logged and an empty list
\* returned
ManagerGetAllSpeakers(points, uid, agentID, fault) ==
  LET r == GetAllSpeakers(points, uid, agentID, fault)
  IN  IF r.err # "" THEN {} ELSE r.speakers

RECURSIVE TotalSamples(_)
TotalSamples(speakers) ==
  IF speakers = {} THEN 0
  ELSE LET speaker == CHOOSE x \in speakers : TRUE
       IN  speaker.SampleCount + TotalSamples(speakers \ {speaker})

\* Manager.GetDatabaseStats at the time now
GetDatabaseStats(points, uid, agentID, fault, now) ==
  LET r == GetAllSpeakers(points, uid, agentID, fault)
  IN  IF r.err # ""
      THEN [TotalSpeakers |-> 0, TotalSamples |-> 0, EmbeddingDim |-> EmbeddingDim,
            Threshold |-> DefaultThreshold, Version |-> "2.0.0", UpdatedAt |-> now]
      ELSE [TotalSpeakers |-> Cardinality(r.speakers),
            TotalSamples |-> TotalSamples(r.speakers),
            EmbeddingDim |-> EmbeddingDim, Threshold |-> DefaultThreshold,
            Version |-> "2.0.0", UpdatedAt |-> now]

\* Manager.GetStats
GetStats(points, uid, agentID, fault, now) ==
  LET stats == GetDatabaseStats(points, uid, agentID, fault, now)
  IN  [speaker_count |-> stats.TotalSpeakers, total_samples |-> stats.TotalSamples,
       embedding_dim |-> stats.EmbeddingDim, threshold |-> stats.Threshold,
       version |-> stats.Version, last_updated |-> stats.UpdatedAt]

-----------------------------------------------------------------------------
(* StreamingIdentifier.  stream is <<>> when the field is nil, else the     *)
(* one-element tuple of the samples the accumulator holds.  Each method     *)
(* runs under the mutex; ops are its calls on the accumulator, in order.    *)

NewStreamingIdentifier(uid, agentID, speakerID, speakerName, sampleRate, threshold) ==
  [uid |-> uid, agentID |-> agentID, speakerID |-> speakerID,
   speakerName |-> speakerName, stream |-> << <<>> >>, sampleRate |-> sampleRate,
   threshold |-> UseThreshold(threshold), isFinished |-> FALSE]

cleanup_KeepStream(si) ==
  IF si.stream # <<>> THEN [si |-> si, ops |-> <<"DeleteOnlineStream">>]
  ELSE [si |-> si, ops |-> <<>>]

cleanup(si) ==
  IF si.stream # <<>>
  THEN [si |-> [si EXCEPT !.stream = <<>>], ops |-> <<"DeleteOnlineStream">>]
  ELSE [si |-> si, ops |-> <<>>]

Close(si) == cleanup(si)

AcceptAudio_NoFinishedCheck(si, audioData) ==
  IF si.stream = <<>> THEN [si |-> si, err |-> "stream is nil", ops |-> <<>>]
  ELSE [si |-> [si EXCEPT !.stream = <<si.stream[1] \o audioData>>],
        err |-> "", ops |-> <<"AcceptWaveform">>]

AcceptAudio(si, audioData) ==
  IF si.isFinished THEN [si |-> si, err |-> "stream already finished", ops |-> <<>>]
  ELSE IF si.stream = <<>> THEN [si |-> si, err |-> "stream is nil", ops |-> <<>>]
  ELSE [si |-> [si EXCEPT !.stream = <<si.stream[1] \o audioData>>],
        err |-> "", ops |-> <<"AcceptWaveform">>]

\* a FinishAndIdentify that returns the error err after the accumulator
\* calls ops and a cleanup
FinishFailed(finished, err, ops) ==
  LET c == cleanup(finished)
  IN  [si |-> c.si, err |-> err, result |-> NoResult, ops |-> ops \o c.ops,
       queries |-> <<>>]

\* every way FinishAndIdentify can return on the store `points`
FinishAndIdentify(points, si, fault) ==
  IF si.isFinished
  THEN {[si |-> si, err |-> "stream already finished", result |-> NoResult,
         ops |-> <<>>, queries |-> <<>>]}
  ELSE IF si.stream = <<>>
  THEN {[si |-> si, err |-> "stream is nil", result |-> NoResult, ops |-> <<>>,
         queries |-> <<>>]}
  ELSE
    LET finished == [si EXCEPT !.isFinished = TRUE]
        samples == si.stream[1]
        embedding == Compute(samples, fault)
        useThreshold == UseThreshold(si.threshold)
    IN  IF ~IsReady(samples)
        THEN {FinishFailed(finished, "insufficient audio data for embedding extraction",
                           <<"InputFinished", "IsReady">>)}
        ELSE IF Len(embedding) = 0
        THEN {FinishFailed(finished, "failed to extract embedding",
                           <<"InputFinished", "IsReady", "Compute">>)}
        ELSE {IF s.err # ""
              THEN [FinishFailed(finished,
                                 "failed to search in vector database: " \o s.err,
                                 <<"InputFinished", "IsReady", "Compute">>)
                      EXCEPT !.queries = <<s.query>>]
              ELSE [si |-> cleanup(finished).si, err |-> "",
                    result |-> BuildIdentifyResult(s.results, useThreshold),
                    ops |-> <<"InputFinished", "IsReady", "Compute">>
                              \o cleanup(finished).ops,
                    queries |-> <<s.query>>] :
               s \in SearchWithOptionalFilters(points, si.uid, si.agentID,
                                               si.speakerID, si.speakerName,
                                               embedding, useThreshold, 1, fault)}

-----------------------------------------------------------------------------
(* VAD trimming.  The classifier is external: flags[f] is its answer for    *)
(* frame f (1 = speech).                                                   *)

NumFrames(n) == (n + HopSize - 1) \div HopSize

\* the answers the classifier can give for the frames of n samples; it is
\* not asked when there is no pool
FrameFlags(enabled, n) ==
  IF enabled THEN [1..NumFrames(n) -> {0, 1}] ELSE {[f \in 1..NumFrames(n) |-> 0]}

\* int(float64(sampleRate) * 0.1)
SilenceSamples(sampleRate) == sampleRate \div 10

filterSilenceWithVADKeepEdges(enabled, audioData, sampleRate, fault, flags) ==
  LET n == Len(audioData)
      speech == {f \in 1..NumFrames(n) : flags[f] = 1}
  IN  IF ~enabled THEN [err |-> "", audio |-> audioData]
      ELSE IF fault = "vad-get" THEN [err |-> "failed to get VAD instance: " \o Cause,
                                     audio |-> <<>>]
      ELSE IF fault = "vad-type"
      THEN [err |-> "VAD instance is not TEN-VAD type", audio |-> <<>>]
      ELSE IF fault = "vad-process" /\ n > 0
      THEN [err |-> "TEN-VAD ProcessAudio error: " \o Cause, audio |-> <<>>]
      ELSE IF speech = {} THEN [err |-> "", audio |-> <<>>]
      ELSE LET startIdx == Max(0, (SetMin(speech) - 1) * HopSize
                                  - SilenceSamples(sampleRate))
               endIdx == Min(n, Min(SetMax(speech) * HopSize, n)
                                + SilenceSamples(sampleRate))
           IN  [err |-> "", audio |-> SubSeq(audioData, startIdx + 1, endIdx)]

\* one run of the frame loop of filterSilenceWithVAD from frame f on, the
\* classifier failing on frame failAt (0: on none)
RECURSIVE FilterFrames(_, _, _, _, _)
FilterFrames(audioData, flags, failAt, f, filteredAudio) ==
  IF f > NumFrames(Len(audioData)) THEN [err |-> "", audio |-> filteredAudio]
  ELSE IF f = failAt
  THEN [err |-> "TEN-VAD ProcessAudio error: " \o Cause, audio |-> <<>>]
  ELSE FilterFrames(audioData, flags, failAt, f + 1,
                    IF flags[f] = 1
                    THEN filteredAudio \o SubSeq(audioData, (f - 1) * HopSize + 1,
                                                 Min(f * HopSize, Len(audioData)))
                    ELSE filteredAudio)

filterSilenceWithVAD(enabled, audioData, sampleRate, fault, failAt, flags) ==
  IF ~enabled THEN [err |-> "", audio |-> audioData]
  ELSE IF fault = "vad-get" THEN [err |-> "failed to get VAD instance: " \o Cause,
                                 audio |-> <<>>]
  ELSE IF fault = "vad-type"
  THEN [err |-> "VAD instance is not TEN-VAD type", audio |-> <<>>]
  ELSE FilterFrames(audioData, flags, IF fault = "vad-process" THEN failAt ELSE 0,
                    1, <<>>)

PoolUse_PutOnSuccess(enabled, fault) ==
  IF ~enabled \/ fault = "vad-get" THEN [got |-> 0, put |-> 0]
  ELSE [got |-> 1, put |-> IF fault = "none" THEN 1 ELSE 0]

\* what either trim operation takes from the pool and gives back: the Put is
\* deferred once Get has succeeded
PoolUse(enabled, fault) ==
  IF ~enabled \/ fault = "vad-get" THEN [got |-> 0, put |-> 0]
  ELSE [got |-> 1, put |-> 1]

\* if f > 1.0 { f = 1.0 } else if f < -1.0 { f = -1.0 }
Saturate(f) == IF f > 1024 THEN 1024 ELSE IF f < -1024 THEN -1024 ELSE f

\* int16(x) of a float x with an integer value.  For x outside the range
\* of int16 the result depends on the implementation: a build that converts
\* to a wider integer and keeps the low 16 bits ("truncate"), or one that
\* gives the nearest int16 ("saturate")
Int16(x, build) ==
  IF x >= -32768 /\ x <= 32767 THEN x
  ELSE IF build = "truncate" THEN ((x + 32768) % 65536) - 32768
  ELSE IF x > 0 THEN 32767 ELSE -32768

\* int16(f * 32768) after the saturation; a sample s stands for s / 1024
ToInt16(f, build) == Int16(Saturate(f) * 32, build)

\* the int16Frame of frame f
Int16Frame(audioData, f, build) ==
  [j \in 1..(Min(f * HopSize, Len(audioData)) - (f - 1) * HopSize) |->
     ToInt16(audioData[(f - 1) * HopSize + j], build)]

\* the frames ProcessAudio is called with: all of them, or those up to the
\* one it fails on
HandedFrames(enabled, audioData, fault, failAt, build) ==
  LET last == IF ~enabled \/ fault \in {"vad-get", "vad-type"} THEN 0
              ELSE IF fault = "vad-process" THEN failAt
              ELSE NumFrames(Len(audioData))
  IN  [f \in 1..last |-> Int16Frame(audioData, f, build)]

-----------------------------------------------------------------------------
(* HTTP handlers *)

AudioX == <<1024, 0>>            \* embedding (2, 0)
AudioY == <<0, -1024>>           \* embedding (0, 2)
AudioLong == <<0, 0, 1024, 0>>   \* embedding (2, 0), with leading silence
AudioShort == <<1024>>           \* too short for the extractor
AudioXY == <<1024, -1024>>       \* embedding (2, 2)

WavSampleRate == 10

RegisterReq(uid, agentID, speakerID, speakerName, uuid, file, audio) ==
  [uid |-> uid, agent_id |-> agentID, speaker_id |-> speakerID,
   speaker_name |-> speakerName, uuid |-> uuid, file |-> file, audio |-> audio,
   sample_rate |-> WavSampleRate]

\* the requests POST /register is called with: file is "wav" (parsed into
\* audio), "bad" (parseAudioFile fails) or "none" (no form file)
RegisterRequests ==
  {RegisterReq(StrA, StrBC, StrS, NameAlice, Uuid1, "wav", AudioY),
   RegisterReq(StrA, StrBC, StrS, NameAlice, Uuid1, "wav", AudioLong),
   RegisterReq(StrA, StrBC, StrT, NameBob, Uuid2, "wav", AudioLong),
   RegisterReq(StrAB, StrC, StrS, NameAlice, Uuid1, "wav", AudioY)}
  \cup {RegisterReq(EmptyStr, StrC, StrS, NameAlice, Uuid1, "wav", AudioX),
        RegisterReq(StrA, EmptyStr, StrS, NameAlice, Uuid1, "wav", AudioX),
        RegisterReq(StrA, StrC, EmptyStr, NameAlice, Uuid1, "wav", AudioX),
        RegisterReq(StrA, StrC, StrS, EmptyStr, Uuid1, "wav", AudioX),
        RegisterReq(StrA, StrC, StrS, NameAlice, EmptyStr, "wav", AudioX),
        RegisterReq(StrA, StrC, StrS, NameAlice, Uuid1, "none", <<>>),
        RegisterReq(StrA, StrC, StrS, NameAlice, Uuid1, "bad", <<>>),
        RegisterReq(StrA, StrC, StrS, NameAlice, Uuid1, "wav", AudioShort)}

\* the faults that can show in POST /register: without a pool the VAD is
\* not called
RegisterFaults(enabled) ==
  {"none", "compute-empty", "compute-short", "count", "insert"}
  \cup (IF enabled THEN {"vad-get", "vad-type", "vad-process"} ELSE {})

HandlerFailed(points, status, err) ==
  [status |-> status, err |-> err, store |-> points, wrote |-> FALSE,
   point |-> NoPoint, countOk |-> FALSE, audio |-> <<>>]

\* Handler.RegisterSpeaker on the store `points`
HandleRegister(points, enabled, req, fault, flags, now) ==
  IF req.uid = EmptyStr
  THEN HandlerFailed(points, 400,
         "uid is required (X-User-ID header, uid query param, or uid form field)")
  ELSE IF req.agent_id = EmptyStr
  THEN HandlerFailed(points, 400,
         "agent_id is required (X-Agent-ID header, agent_id query param, or agent_id form field)")
  ELSE IF req.speaker_id = EmptyStr
  THEN HandlerFailed(points, 400, "speaker_id is required")
  ELSE IF req.speaker_name = EmptyStr
  THEN HandlerFailed(points, 400, "speaker_name is required")
  ELSE IF req.uuid = EmptyStr THEN HandlerFailed(points, 400, "uuid is required")
  ELSE IF req.file = "none" THEN HandlerFailed(points, 400, "audio file is required")
  ELSE IF req.file = "bad" THEN HandlerFailed(points, 400, "failed to parse audio file: " \o Cause)
  ELSE
    LET f == filterSilenceWithVADKeepEdges(enabled, req.audio, req.sample_rate, fault, flags)
    IN  IF f.err # ""
        THEN HandlerFailed(points, 500, "failed to filter silence: " \o f.err)
        ELSE
          LET r == RegisterSpeaker(points, req.uid, req.agent_id, req.speaker_id,
                                   req.speaker_name, req.uuid, f.audio,
                                   fault, now)
          IN  IF r.err # ""
              THEN HandlerFailed(points, 500, "failed to register speaker: " \o r.err)
              ELSE [status |-> 200, err |-> "", store |-> r.store, wrote |-> TRUE,
                    point |-> r.point, countOk |-> r.countOk, audio |-> f.audio]

TripleCount(points, uid, agentID, speakerID) ==
  Cardinality({p \in points : /\ p.payload.uid = uid
                              /\ p.payload.agent_id = agentID
                              /\ p.payload.speaker_id = speakerID})

\* POST /register with a request of reqs under a fault of faults, while
\* fewer than max upserts were made; now: what time.Now().Unix() returns,
\* never less than before
Register(reqs, faults, max) ==
  /\ Len(writes) < max
  /\ \E req \in reqs, fault \in faults,
        now \in clock..Min(clock + 1, MaxClock) :
       \E flags \in FrameFlags(vadEnabled, Len(req.audio)) :
         LET r == HandleRegister(store, vadEnabled, req, fault, flags, now)
         IN  /\ store' = r.store
             /\ iso' = [u \in Uids |->
                          IF u = req.uid
                          THEN HandleRegister(iso[u], vadEnabled, req, fault, flags,
                                              now).store
                          ELSE iso[u]]
             /\ resp' = [op |-> "register", req |-> req, fault |-> fault,
                         before |-> store, status |-> r.status,
                         err |-> r.err, result |-> NoResult, queries |-> <<>>]
             /\ writes' = IF r.wrote
                          THEN Append(writes,
                                 [req |-> req, point |-> r.point,
                                  countOk |-> r.countOk,
                                  before |-> TripleCount(store, req.uid, req.agent_id,
                                                         req.speaker_id),
                                  audio |-> r.audio])
                          ELSE writes
             /\ clock' = IF r.wrote THEN now ELSE clock
             /\ UNCHANGED vadEnabled

HttpRegister ==
  /\ Register(RegisterRequests, RegisterFaults(vadEnabled), MaxWrites)
  /\ UNCHANGED <<siVars, wsVars>>

\* the threshold parameter as the handlers read it: taken when it is
\* positive, none (0) otherwise
ParsedThreshold(value) == IF value > 0 THEN value ELSE 0

IdentifyReq(uid, agentID, speakerID, speakerName, file, audio, threshold) ==
  [uid |-> uid, agent_id |-> agentID, speaker_id |-> speakerID,
   speaker_name |-> speakerName, file |-> file, audio |-> audio,
   sample_rate |-> WavSampleRate, threshold |-> threshold]

\* the requests POST /identify is called with; threshold is the value of
\* the parameter, 0 when it is absent or malformed
IdentifyRequests ==
  {IdentifyReq(StrA, StrBC, EmptyStr, EmptyStr, "wav", AudioLong, 0),
   IdentifyReq(StrA, StrBC, EmptyStr, EmptyStr, "wav", AudioY, 0),
   IdentifyReq(EmptyStr, EmptyStr, EmptyStr, EmptyStr, "wav", AudioY, 0),
   IdentifyReq(StrA, EmptyStr, StrT, NameBob, "wav", AudioX, 90),
   IdentifyReq(StrA, StrBC, EmptyStr, EmptyStr, "none", <<>>, 0),
   IdentifyReq(StrA, StrBC, EmptyStr, EmptyStr, "bad", <<>>, 0),
   IdentifyReq(StrA, StrBC, EmptyStr, EmptyStr, "wav", AudioShort, 0)}

\* every way Handler.IdentifySpeaker can answer
HandleIdentify(points, req, fault) ==
  IF req.file = "none"
  THEN {[status |-> 400, err |-> "audio file is required", result |-> NoResult,
         queries |-> <<>>]}
  ELSE IF req.file = "bad"
  THEN {[status |-> 400, err |-> "failed to parse audio file: " \o Cause,
         result |-> NoResult,
         queries |-> <<>>]}
  ELSE {[status |-> IF o.err # "" THEN 500 ELSE 200,
         err |-> IF o.err # "" THEN "failed to identify speaker: " \o o.err ELSE "",
         result |-> o.result, queries |-> o.queries] :
          o \in IdentifySpeaker(points, req.uid, req.agent_id, req.speaker_id,
                                req.speaker_name, req.audio,
                                ParsedThreshold(req.threshold), fault)}

\* POST /identify with a request of reqs under a fault of faults
Identify(reqs, faults) ==
  /\ \E req \in reqs, fault \in faults :
       \E o \in HandleIdentify(store, req, fault) :
         /\ resp' = [op |-> "identify", req |-> req, fault |-> fault,
                     before |-> store, status |-> o.status,
                     err |-> o.err, result |-> o.result, queries |-> o.queries]
  /\ UNCHANGED <<store, iso, clock, writes, vadEnabled>>

HttpIdentify ==
  /\ Identify(IdentifyRequests, {"none", "compute-empty", "search"})
  /\ UNCHANGED <<siVars, wsVars>>

UidRequired ==
  "uid is required (X-User-ID header, uid query param, or uid form field)"

VerifyReq(uid, agentID, speakerID, file, audio) ==
  [uid |-> uid, agent_id |-> agentID, speaker_id |-> speakerID, file |-> file,
   audio |-> audio, sample_rate |-> WavSampleRate]

\* the requests POST /verify/:speaker_id is called with
VerifyRequests ==
  {VerifyReq(StrA, StrBC, StrS, "wav", AudioY),
   VerifyReq(StrA, EmptyStr, StrS, "wav", AudioX),
   VerifyReq(StrA, StrC, StrT, "wav", AudioY),
   VerifyReq(EmptyStr, StrBC, StrS, "wav", AudioY),
   VerifyReq(StrA, StrBC, StrS, "none", <<>>),
   VerifyReq(StrA, StrBC, StrS, "wav", AudioShort)}

VerifyFaults == {"none", "search", "info"}

VerifyRefused(status, err) ==
  [status |-> status, err |-> err, result |-> NoVerify, queries |-> <<>>]

\* every way Handler.VerifySpeaker can answer
HandleVerify(points, req, fault) ==
  IF req.uid = EmptyStr THEN {VerifyRefused(400, UidRequired)}
  ELSE IF req.speaker_id = EmptyStr THEN {VerifyRefused(400, "speaker_id is required")}
  ELSE IF req.file = "none" THEN {VerifyRefused(400, "audio file is required")}
  ELSE IF req.file = "bad"
  THEN {VerifyRefused(400, "failed to parse audio file: " \o Cause)}
  ELSE {[status |-> IF o.err = "" THEN 200
                    ELSE IF Contains(o.err, "belongs to different uid") THEN 403
                    ELSE 500,
         err |-> IF o.err = "" THEN ""
                 ELSE IF Contains(o.err, "belongs to different uid") THEN o.err
                 ELSE "failed to verify speaker: " \o o.err,
         result |-> o.result, queries |-> o.queries] :
          o \in VerifySpeaker(points, req.uid, req.agent_id, req.speaker_id,
                              req.audio, fault)}

DeleteReq(uid, agentID, uuid, speakerID) ==
  [uid |-> uid, agent_id |-> agentID, uuid |-> uuid, speaker_id |-> speakerID]

\* the requests DELETE /speaker?uuid= and DELETE /speaker/:speaker_id are
\* called with
DeleteRequests ==
  {DeleteReq(StrA, StrBC, Uuid1, EmptyStr),
   DeleteReq(StrA, EmptyStr, Uuid1, EmptyStr),
   DeleteReq(StrA, StrBC, Uuid2, StrS),
   DeleteReq(StrA, StrBC, EmptyStr, StrS),
   DeleteReq(StrA, EmptyStr, EmptyStr, StrS),
   DeleteReq(EmptyStr, StrBC, Uuid1, EmptyStr),
   DeleteReq(StrA, StrBC, EmptyStr, EmptyStr)}

DeleteFaults == {"none", "scroll", "delete"}

\* the answer of Handler.DeleteSpeaker to what the Manager returned
DeleteAnswer(r) ==
  [status |-> IF r.err = "" THEN 200
              ELSE IF Contains(r.err, "not found") THEN 404
              ELSE IF Contains(r.err, "belongs to different uid") THEN 403
              ELSE 500,
   err |-> IF r.err = "" THEN ""
           ELSE IF \/ Contains(r.err, "not found")
                   \/ Contains(r.err, "belongs to different uid") THEN r.err
           ELSE "failed to delete speaker: " \o r.err,
   store |-> r.store]

\* Handler.DeleteSpeaker: by uuid when the query parameter is given, else by
\* the speaker_id of the path
HandleDelete(points, req, fault) ==
  IF req.uid = EmptyStr THEN [status |-> 400, err |-> UidRequired, store |-> points]
  ELSE IF req.uuid # EmptyStr
  THEN DeleteAnswer(ManagerDeleteSpeakerByUUID(points, req.uid, req.agent_id,
                                               req.uuid, fault))
  ELSE IF req.speaker_id = EmptyStr
  THEN [status |-> 400, err |-> "uuid or speaker_id is required", store |-> points]
  ELSE DeleteAnswer(ManagerDeleteSpeaker(points, req.uid, req.agent_id,
                                         req.speaker_id, fault))

ListReq(uid, agentID) == [uid |-> uid, agent_id |-> agentID]

\* the requests GET /speakers and GET /stats are called with
ListRequests ==
  {ListReq(StrA, EmptyStr), ListReq(StrA, StrBC), ListReq(EmptyStr, EmptyStr)}

ListFaults == {"none", "scroll"}

\* Handler.GetAllSpeakers
HandleList(points, req, fault) ==
  IF req.uid = EmptyStr
  THEN [status |-> 400, err |-> UidRequired, result |-> NoResult]
  ELSE LET speakers == ManagerGetAllSpeakers(points, req.uid, req.agent_id, fault)
       IN  [status |-> 200, err |-> "",
            result |-> [uid |-> req.uid, agent_id |-> req.agent_id,
                        speakers |-> speakers, total |-> Cardinality(speakers)]]

\* Handler.GetStats
HandleStats(points, req, fault, now) ==
  [status |-> 200, err |-> "",
   result |-> GetStats(points, req.uid, req.agent_id, fault, now)]

-----------------------------------------------------------------------------
(* The operations that manage enrolled speakers *)

\* the enrolments made while speakers are verified and deleted
ManageRequests ==
  {RegisterReq(StrA, StrBC, StrS, NameAlice, Uuid1, "wav", AudioY),
   RegisterReq(StrA, StrBC, StrS, NameBob, Uuid2, "wav", AudioY),
   RegisterReq(StrA, StrC, StrS, NameAlice, Uuid1, "wav", AudioY),
   RegisterReq(StrAB, StrBC, StrS, NameAlice, Uuid1, "wav", AudioY),
   RegisterReq(StrA, StrBC, StrT, NameBob, Uuid1, "wav", AudioX)}

ManageRegister ==
  /\ Register(ManageRequests, {"none"}, MaxWrites)
  /\ UNCHANGED <<siVars, wsVars>>

\* the arguments Manager.RegisterSpeaker is called with by a caller other
\* than the HTTP handler; file "pcm": the samples are passed as they are
DirectRegisterCalls ==
  {RegisterReq(StrA, StrBC, EmptyStr, EmptyStr, Uuid1, "pcm", AudioY),
   RegisterReq(EmptyStr, StrBC, StrS, NameAlice, Uuid1, "pcm", AudioY),
   RegisterReq(StrA, EmptyStr, StrS, NameAlice, Uuid1, "pcm", AudioY),
   RegisterReq(StrA, StrBC, StrS, NameAlice, EmptyStr, "pcm", AudioY)}

\* a direct call of Manager.RegisterSpeaker
CallRegisterSpeaker ==
  /\ Len(writes) < MaxWrites
  /\ \E req \in DirectRegisterCalls, fault \in {"none", "insert"},
        now \in clock..Min(clock + 1, MaxClock) :
       LET call(points) ==
             RegisterSpeaker(points, req.uid, req.agent_id, req.speaker_id,
                             req.speaker_name, req.uuid, req.audio, fault, now)
           r == call(store)
       IN  /\ store' = r.store
           /\ iso' = [u \in Uids |-> IF u = req.uid THEN call(iso[u]).store ELSE iso[u]]
           /\ resp' = [op |-> "RegisterSpeaker", req |-> req, fault |-> fault,
                       before |-> store, status |-> 0, err |-> r.err,
                       result |-> NoResult, queries |-> <<>>]
           /\ writes' = IF r.wrote
                        THEN Append(writes,
                               [req |-> req, point |-> r.point, countOk |-> r.countOk,
                                before |-> TripleCount(store, req.uid, req.agent_id,
                                                       req.speaker_id),
                                audio |-> req.audio])
                        ELSE writes
           /\ clock' = IF r.wrote THEN now ELSE clock
  /\ UNCHANGED <<vadEnabled, siVars, wsVars>>

HttpVerify ==
  /\ \E req \in VerifyRequests, fault \in VerifyFaults :
       \E o \in HandleVerify(store, req, fault) :
         resp' = [op |-> "verify", req |-> req, fault |-> fault, before |-> store,
                  status |-> o.status, err |-> o.err, result |-> o.result,
                  queries |-> o.queries]
  /\ UNCHANGED <<store, iso, clock, writes, vadEnabled, siVars, wsVars>>

\* DELETE /speaker; repeat (ghost): the request is the one answered just
\* before, and that answer was 200
HttpDelete ==
  /\ \E req \in DeleteRequests, fault \in DeleteFaults :
       LET r == HandleDelete(store, req, fault)
       IN  /\ store' = r.store
           /\ iso' = [u \in Uids |->
                        IF u = req.uid THEN HandleDelete(iso[u], req, fault).store
                        ELSE iso[u]]
           /\ resp' = [op |-> "delete", req |-> req, fault |-> fault,
                       before |-> store, status |-> r.status, err |-> r.err,
                       result |-> NoResult, queries |-> <<>>,
                       repeat |-> /\ resp.op = "delete"
                                  /\ resp.req = req
                                  /\ resp.status = 200]
  /\ UNCHANGED <<clock, writes, vadEnabled, siVars, wsVars>>

HttpList ==
  /\ \E req \in ListRequests, fault \in ListFaults :
       LET o == HandleList(store, req, fault)
       IN  resp' = [op |-> "list", req |-> req, fault |-> fault, before |-> store,
                    status |-> o.status, err |-> o.err, result |-> o.result,
                    queries |-> <<>>]
  /\ UNCHANGED <<store, iso, clock, writes, vadEnabled, siVars, wsVars>>

HttpStats ==
  /\ \E req \in ListRequests, fault \in ListFaults :
       LET o == HandleStats(store, req, fault, clock)
       IN  resp' = [op |-> "stats", req |-> req, fault |-> fault, before |-> store,
                    status |-> o.status, err |-> o.err, result |-> o.result,
                    queries |-> <<>>]
  /\ UNCHANGED <<store, iso, clock, writes, vadEnabled, siVars, wsVars>>

-----------------------------------------------------------------------------
(* Handler.IdentifySpeakerWebSocket.  w is the state of the handler serving  *)
(* one connection: its locals, and as ghosts what the last FinishAndIdentify *)
(* returned (last), the numbers of accumulators created and deleted, the    *)
(* samples of the well-formed binary frames read since the last finish or   *)
(* cancel (heard) and the finish and cancel actions read so far (rounds).   *)
(* A step returns the new state and the messages passed to WriteJSON        *)
(* (duration_ms, a function of samples and sample_rate, is not recorded).   *)

DefaultSampleRate == 16000
MaxMessageSize == 32

\* query parameters: sample_rate and threshold 0 when absent or malformed
WsReq(uid, agentID, speakerID, speakerName, sampleRate, threshold) ==
  [uid |-> uid, agent_id |-> agentID, speaker_id |-> speakerID,
   speaker_name |-> speakerName, sample_rate |-> sampleRate,
   threshold |-> threshold]

WsRequests ==
  {WsReq(StrA, StrBC, EmptyStr, EmptyStr, WavSampleRate, 0),
   WsReq(StrA, EmptyStr, StrS, EmptyStr, 0, 90)}

NoConnection == [phase |-> "none"]

BinaryFrame(samples, rest) == [type |-> "binary", samples |-> samples, rest |-> rest]

\* a text message that is a JSON object; action is the string value of its
\* "action" field, "" when it has none
TextFrame(action, size) ==
  [type |-> "text", json |-> TRUE, action |-> action, size |-> size]

\* a text message json.Unmarshal refuses, although it holds the word action
NotJson(action, size) ==
  [type |-> "text", json |-> FALSE, action |-> action, size |-> size]

\* len(message): 4 bytes a sample and `rest` trailing bytes
FrameSize(frame) ==
  IF frame.type = "binary" THEN 4 * Len(frame.samples) + frame.rest ELSE frame.size

createIdentifier_ForgetThreshold(w) ==
  NewStreamingIdentifier(w.req.uid, w.req.agent_id, w.req.speaker_id,
                         w.req.speaker_name, w.sampleRate, 0)

createIdentifier(w) ==
  NewStreamingIdentifier(w.req.uid, w.req.agent_id, w.req.speaker_id,
                         w.req.speaker_name, w.sampleRate,
                         ParsedThreshold(w.req.threshold))

\* the handler returns: the deferred identifier.Close() and conn.Close()
Return(w, how) ==
  LET c == Close(w.identifier)
  IN  [w EXCEPT !.phase = "closed", !.end = how, !.identifier = c.si,
                !.deleted = @ + Len(c.ops)]

ResetRound_LeakIdentifier(w) ==
  [w EXCEPT !.identifier = createIdentifier(w),
            !.created = @ + 1,
            !.totalAudioSamples = 0,
            !.audioChunkCount = 0]

\* identifier.Close(); identifier = createIdentifier(); counters zeroed
ResetRound_KeepIdentifier(w) ==
  [w EXCEPT !.totalAudioSamples = 0, !.audioChunkCount = 0]

ResetRound(w) ==
  [w EXCEPT !.identifier = createIdentifier(w),
            !.created = @ + 1,
            !.deleted = @ + Len(Close(w.identifier).ops),
            !.totalAudioSamples = 0,
            !.audioChunkCount = 0]

Step(w, sent) == [ws |-> w, sent |-> sent]

Deleted(ops) == Cardinality({k \in 1..Len(ops) : ops[k] = "DeleteOnlineStream"})

OnFinishError_Silent(w, r) == Step(ResetRound(w), <<>>)

OnFinishError_Return(w, r) ==
  Step(Return(w, "finish error"),
       <<[type |-> "error", message |-> r.err, round |-> w.roundCount]>>)

\* case "finish", FinishAndIdentify having returned r with an error
OnFinishError(w, r) ==
  Step(ResetRound(w),
       <<[type |-> "error", message |-> r.err, round |-> w.roundCount]>>)

OnFinishResult_SameRound(w, r) ==
  Step(ResetRound(w),
       <<[type |-> "result", result |-> r.result, round |-> w.roundCount],
         [type |-> "ready", message |-> "Ready for next round",
          round |-> w.roundCount]>>)

\* case "finish", FinishAndIdentify having returned the result of r
OnFinishResult(w, r) ==
  Step(ResetRound(w),
       <<[type |-> "result", result |-> r.result, round |-> w.roundCount],
         [type |-> "ready", message |-> "Ready for next round",
          round |-> w.roundCount + 1]>>)

\* case "finish": every way it can go on the store `points`
HandleFinish(w, points, fault) ==
  {LET called == [w EXCEPT !.roundCount = @ + 1,
                           !.identifier = r.si,
                           !.deleted = @ + Deleted(r.ops),
                           !.last = [err |-> r.err, result |-> r.result]]
   IN  IF r.err # "" THEN OnFinishError(called, r) ELSE OnFinishResult(called, r) :
   r \in FinishAndIdentify(points, w.identifier, fault)}

HandleCancel_CountRound(w) ==
  Step(ResetRound([w EXCEPT !.roundCount = @ + 1]),
       <<[type |-> "cancelled",
          message |-> "Current round cancelled, ready for next round",
          round |-> w.roundCount + 1]>>)

HandleCancel_KeepIdentifier(w) ==
  Step(ResetRound_KeepIdentifier(w),
       <<[type |-> "cancelled",
          message |-> "Current round cancelled, ready for next round",
          round |-> w.roundCount + 1]>>)

\* case "cancel"
HandleCancel(w) ==
  Step(ResetRound(w),
       <<[type |-> "cancelled",
          message |-> "Current round cancelled, ready for next round",
          round |-> w.roundCount + 1]>>)

HandleClose_LeakIdentifier(w) ==
  Step([w EXCEPT !.phase = "closed", !.end = "close"],
       <<[type |-> "closing", message |-> "Connection closing",
          total_rounds |-> w.roundCount]>>)

\* case "close"
HandleClose(w) ==
  Step(Return(w, "close"),
       <<[type |-> "closing", message |-> "Connection closing",
          total_rounds |-> w.roundCount]>>)

HandleBinary_TruncatesFrame(w, frame) ==
  IF Len(frame.samples) = 0
  THEN Step(Return(w, "panic"), <<>>)
  ELSE LET r == AcceptAudio(w.identifier, frame.samples)
       IN  IF r.err # ""
           THEN Step(Return([w EXCEPT !.identifier = r.si], "accept error"),
                     <<[type |-> "error", message |-> r.err]>>)
           ELSE Step([w EXCEPT !.identifier = r.si,
                               !.totalAudioSamples = @ + Len(frame.samples),
                               !.audioChunkCount = @ + 1],
                     <<[type |-> "audio_received", samples |-> Len(frame.samples)]>>)

\* a binary message within the size limit
HandleBinary(w, frame) ==
  IF FrameSize(frame) % 4 # 0
  THEN Step(w, <<[type |-> "error", message |-> "invalid audio data length"]>>)
  ELSE IF Len(frame.samples) = 0
  THEN Step(Return(w, "panic"), <<>>)     \* audioData[0]: index out of range
  ELSE LET r == AcceptAudio(w.identifier, frame.samples)
       IN  IF r.err # ""
           THEN Step(Return([w EXCEPT !.identifier = r.si], "accept error"),
                     <<[type |-> "error", message |-> r.err]>>)
           ELSE Step([w EXCEPT !.identifier = r.si,
                               !.totalAudioSamples = @ + Len(frame.samples),
                               !.audioChunkCount = @ + 1],
                     <<[type |-> "audio_received", samples |-> Len(frame.samples)]>>)

\* the control message is handled by its action
HandleAction(w, points, frame, fault) ==
  CASE frame.action = "finish" -> HandleFinish(w, points, fault)
    [] frame.action = "cancel" -> {HandleCancel(w)}
    [] frame.action = "close" -> {HandleClose(w)}
    [] OTHER -> {Step(w, <<>>)}

LoopBody_LimitsBinaryOnly(w, points, frame, fault) ==
  IF frame.type = "text"
  THEN IF ~frame.json THEN {Step(w, <<>>)}
       ELSE HandleAction(w, points, frame, fault)
  ELSE IF MaxMessageSize > 0 /\ FrameSize(frame) > MaxMessageSize
  THEN {Step(w, <<[type |-> "error", message |-> "message too large"]>>)}
  ELSE {HandleBinary(w, frame)}

LoopBody_ReadsAnyText(w, points, frame, fault) ==
  IF MaxMessageSize > 0 /\ FrameSize(frame) > MaxMessageSize
  THEN {Step(w, <<[type |-> "error", message |-> "message too large"]>>)}
  ELSE IF frame.type = "text"
  THEN HandleAction(w, points, frame, fault)
  ELSE {HandleBinary(w, frame)}

\* the body of the read loop for one message: every way it can go
LoopBody(w, points, frame, fault) ==
  IF MaxMessageSize > 0 /\ FrameSize(frame) > MaxMessageSize
  THEN {Step(w, <<[type |-> "error", message |-> "message too large"]>>)}
  ELSE IF frame.type = "text"
  THEN IF ~frame.json THEN {Step(w, <<>>)}
       ELSE HandleAction(w, points, frame, fault)
  ELSE {HandleBinary(w, frame)}

-----------------------------------------------------------------------------
(* Calls made directly on one StreamingIdentifier *)

Chunks == {AudioX, AudioY}

FinishFaults == {"none", "compute-empty", "search"}

\* the store after one enrolment
SeedStore ==
  RegisterSpeaker({}, StrA, StrBC, StrS, NameAlice, Uuid1, AudioY, "none", 0).store

Called(name, err, result, ops) ==
  [call |-> name, err |-> err, result |-> result, ops |-> ops]

CallAcceptAudio ==
  /\ Len(sessionLog) < MaxCalls
  /\ \E audioData \in Chunks :
       LET r == AcceptAudio(session, audioData)
       IN  /\ session' = r.si
           /\ sessionLog' = Append(sessionLog,
                                   Called("AcceptAudio", r.err, NoResult, r.ops))
  /\ UNCHANGED <<httpVars, wsVars, goroutines>>

CallFinishAndIdentify ==
  /\ Len(sessionLog) < MaxCalls
  /\ \E fault \in FinishFaults :
       \E r \in FinishAndIdentify(store, session, fault) :
         /\ session' = r.si
         /\ sessionLog' = Append(sessionLog,
                                 Called("FinishAndIdentify", r.err, r.result, r.ops))
  /\ UNCHANGED <<httpVars, wsVars, goroutines>>

CallClose ==
  /\ Len(sessionLog) < MaxCalls
  /\ LET r == Close(session)
     IN  /\ session' = r.si
         /\ sessionLog' = Append(sessionLog, Called("Close", "", NoResult, r.ops))
  /\ UNCHANGED <<httpVars, wsVars, goroutines>>

-----------------------------------------------------------------------------
(* Goroutines calling the methods of one StreamingIdentifier at once.  Each *)
(* goroutine makes one call and goes through it statement by statement:     *)
(* pc names the statement it is about to run.  goroutines.mutex is 0 when   *)
(* si.mutex is free, else the goroutine that holds it.  Ghosts: deleted,    *)
(* the accumulator went through DeleteOnlineStream; crashed, the process    *)
(* used the accumulator after that or through a nil pointer; begun, some    *)
(* FinishAndIdentify passed its Lock; per goroutine, at is session as it    *)
(* was when the goroutine passed its Lock and late is begun at that time.   *)

GoCalls ==
  {[op |-> "AcceptAudio", audio |-> c, fault |-> "none"] : c \in Chunks}
  \cup {[op |-> "FinishAndIdentify", audio |-> <<>>, fault |-> f] : f \in FinishFaults}
  \cup {[op |-> "Close", audio |-> <<>>, fault |-> "none"]}

Idle ==
  [pc |-> "idle", op |-> "", audio |-> <<>>, fault |-> "none", at |-> <<>>,
   late |-> FALSE, err |-> "", result |-> NoResult, embedding |-> <<>>]

Lock_NoWait(mutex) == TRUE

\* si.mutex.Lock() returns once the mutex is free
Lock(mutex) == mutex = 0

\* the accumulator si.stream points to cannot be used
Dangling == goroutines.deleted \/ session.stream = <<>>

At(i, pc) == ~goroutines.crashed /\ goroutines.g[i].pc = pc

Goto(i, pc) == [goroutines EXCEPT !.g[i].pc = pc]

Fail(i, err, pc) == [goroutines EXCEPT !.g[i].pc = pc, !.g[i].err = err]

Crash == [goroutines EXCEPT !.crashed = TRUE]

\* a goroutine calls one of the methods
GoCall ==
  \E i \in 1..MaxGoroutines :
    /\ At(i, "idle")
    /\ \E c \in GoCalls :
         goroutines' = [goroutines EXCEPT !.g[i].pc = "Lock", !.g[i].op = c.op,
                                          !.g[i].audio = c.audio,
                                          !.g[i].fault = c.fault]
    /\ UNCHANGED <<httpVars, wsVars, session, sessionLog>>

\* si.mutex.Lock()
GoLock ==
  \E i \in 1..MaxGoroutines :
    /\ At(i, "Lock")
    /\ Lock(goroutines.mutex)
    /\ goroutines' =
         [goroutines EXCEPT
            !.mutex = i,
            !.begun = @ \/ goroutines.g[i].op = "FinishAndIdentify",
            !.g[i].pc = IF goroutines.g[i].op = "Close" THEN "cleanup"
                        ELSE "isFinished",
            !.g[i].at = session,
            !.g[i].late = goroutines.begun]
    /\ UNCHANGED <<httpVars, wsVars, session, sessionLog>>

\* if si.isFinished
GoIsFinished ==
  \E i \in 1..MaxGoroutines :
    /\ At(i, "isFinished")
    /\ goroutines' = IF session.isFinished
                     THEN Fail(i, "stream already finished", "Unlock")
                     ELSE Goto(i, "stream")
    /\ UNCHANGED <<httpVars, wsVars, session, sessionLog>>

\* if si.stream == nil
GoStreamNil ==
  \E i \in 1..MaxGoroutines :
    /\ At(i, "stream")
    /\ goroutines' = IF session.stream = <<>>
                     THEN Fail(i, "stream is nil", "Unlock")
                     ELSE IF goroutines.g[i].op = "AcceptAudio"
                     THEN Goto(i, "AcceptWaveform")
                     ELSE Goto(i, "InputFinished")
    /\ UNCHANGED <<httpVars, wsVars, session, sessionLog>>

\* si.stream.AcceptWaveform(si.sampleRate, audioData); return nil
GoAcceptWaveform ==
  \E i \in 1..MaxGoroutines :
    /\ At(i, "AcceptWaveform")
    /\ IF Dangling
       THEN goroutines' = Crash /\ session' = session
       ELSE /\ session' = [session EXCEPT
                             !.stream = <<@[1] \o goroutines.g[i].audio>>]
            /\ goroutines' = Goto(i, "Unlock")
    /\ UNCHANGED <<httpVars, wsVars, sessionLog>>

\* si.stream.InputFinished()
GoInputFinished ==
  \E i \in 1..MaxGoroutines :
    /\ At(i, "InputFinished")
    /\ goroutines' = IF Dangling THEN Crash ELSE Goto(i, "setFinished")
    /\ UNCHANGED <<httpVars, wsVars, session, sessionLog>>

\* si.isFinished = true
GoSetFinished ==
  \E i \in 1..MaxGoroutines :
    /\ At(i, "setFinished")
    /\ session' = [session EXCEPT !.isFinished = TRUE]
    /\ goroutines' = Goto(i, "IsReady")
    /\ UNCHANGED <<httpVars, wsVars, sessionLog>>

\* if !si.manager.extractor.IsReady(si.stream)
GoIsReady ==
  \E i \in 1..MaxGoroutines :
    /\ At(i, "IsReady")
    /\ goroutines' =
         IF Dangling THEN Crash
         ELSE IF ~IsReady(session.stream[1])
         THEN Fail(i, "insufficient audio data for embedding extraction", "cleanup")
         ELSE Goto(i, "Compute")
    /\ UNCHANGED <<httpVars, wsVars, session, sessionLog>>

\* embedding := si.manager.extractor.Compute(si.stream)
GoCompute ==
  \E i \in 1..MaxGoroutines :
    /\ At(i, "Compute")
    /\ goroutines' =
         IF Dangling THEN Crash
         ELSE LET embedding == Compute(session.stream[1], goroutines.g[i].fault)
              IN  IF Len(embedding) = 0
                  THEN Fail(i, "failed to extract embedding", "cleanup")
                  ELSE [goroutines EXCEPT !.g[i].pc = "Search",
                                          !.g[i].embedding = embedding]
    /\ UNCHANGED <<httpVars, wsVars, session, sessionLog>>

\* the search and the result built from its answer
GoSearch ==
  \E i \in 1..MaxGoroutines :
    /\ At(i, "Search")
    /\ LET useThreshold == UseThreshold(session.threshold)
       IN  \E s \in SearchWithOptionalFilters(store, session.uid, session.agentID,
                                              session.speakerID, session.speakerName,
                                              goroutines.g[i].embedding,
                                              useThreshold, 1, goroutines.g[i].fault) :
             goroutines' =
               IF s.err # ""
               THEN Fail(i, "failed to search in vector database: " \o s.err,
                         "cleanup")
               ELSE [goroutines EXCEPT
                       !.g[i].pc = "cleanup",
                       !.g[i].result = BuildIdentifyResult(s.results, useThreshold)]
    /\ UNCHANGED <<httpVars, wsVars, session, sessionLog>>

\* cleanup: if si.stream != nil { sherpa.DeleteOnlineStream(si.stream)
GoCleanup ==
  \E i \in 1..MaxGoroutines :
    /\ At(i, "cleanup")
    /\ goroutines' =
         IF session.stream = <<>> THEN Goto(i, "Unlock")
         ELSE IF goroutines.deleted THEN Crash
         ELSE [goroutines EXCEPT !.deleted = TRUE, !.g[i].pc = "clear"]
    /\ UNCHANGED <<httpVars, wsVars, session, sessionLog>>

\* cleanup: si.stream = nil }
GoClear ==
  \E i \in 1..MaxGoroutines :
    /\ At(i, "clear")
    /\ session' = [session EXCEPT !.stream = <<>>]
    /\ goroutines' = Goto(i, "Unlock")
    /\ UNCHANGED <<httpVars, wsVars, sessionLog>>

\* the deferred si.mutex.Unlock(), and the return
GoUnlock ==
  \E i \in 1..MaxGoroutines :
    /\ At(i, "Unlock")
    /\ goroutines' = [goroutines EXCEPT !.mutex = 0, !.g[i].pc = "done"]
    /\ UNCHANGED <<httpVars, wsVars, session, sessionLog>>

-----------------------------------------------------------------------------
(* Request workers inside Manager.RegisterSpeaker at once.  Each worker     *)
(* serves one enrolment and goes through it request by request to the       *)
(* store: goroutines.w[i].pc names the one it is about to make.  Ghost:     *)
(* goroutines.initial, the store before the enrolments.                     *)

\* the enrolments: two samples of one speaker and one of another
EnrolRequests ==
  {RegisterReq(StrA, StrBC, StrS, NameAlice, Uuid1, "pcm", AudioY),
   RegisterReq(StrA, StrBC, StrS, NameAlice, Uuid2, "pcm", AudioX),
   RegisterReq(StrA, StrBC, StrT, NameBob, Uuid2, "pcm", AudioX)}

Waiting ==
  [pc |-> "idle", req |-> <<>>, embedding |-> <<>>, sampleIndex |-> 0, err |-> ""]

\* the checks of the arguments and the embedding, which read nothing shared
EnrolExtract ==
  \E i \in 1..MaxWorkers :
    /\ goroutines.w[i].pc = "idle"
    /\ \E req \in EnrolRequests :
         LET e == extractEmbedding(req.audio, "none")
         IN  goroutines' = [goroutines EXCEPT !.w[i].pc = "count", !.w[i].req = req,
                                              !.w[i].embedding = e.embedding]
    /\ UNCHANGED <<httpVars, wsVars, session, sessionLog>>

\* sampleIndex, err := m.vectorDB.GetSpeakerSampleCount(uid, agentID, speakerID)
EnrolCount ==
  \E i \in 1..MaxWorkers :
    /\ goroutines.w[i].pc = "count"
    /\ LET req == goroutines.w[i].req
           c == GetSpeakerSampleCount(store, req.uid, req.agent_id, req.speaker_id,
                                      "none")
       IN  goroutines' = [goroutines EXCEPT !.w[i].pc = "insert",
                                            !.w[i].sampleIndex = c.count]
    /\ UNCHANGED <<httpVars, wsVars, session, sessionLog>>

\* err = m.vectorDB.Insert(...), and the return
EnrolInsert ==
  \E i \in 1..MaxWorkers :
    /\ goroutines.w[i].pc = "insert"
    /\ \E fault \in {"none", "insert"} :
         LET me == goroutines.w[i]
             r == Insert(store, me.req.uid, me.req.agent_id, me.req.speaker_id,
                         me.req.speaker_name, me.req.uuid, me.embedding,
                         me.sampleIndex, clock, clock, fault)
         IN  /\ store' = r.store
             /\ goroutines' =
                  [goroutines EXCEPT
                     !.w[i].pc = "done",
                     !.w[i].err = IF r.err = "" THEN ""
                                  ELSE "failed to insert to vector database: " \o r.err]
    /\ UNCHANGED <<iso, resp, clock, writes, vadEnabled, wsVars, session, sessionLog>>

-----------------------------------------------------------------------------
(* One WebSocket connection *)

NoFinish == [err |-> "", result |-> NoResult]

\* the handler's state when it enters the read loop
Connected(req) ==
  LET w == [phase |-> "open", end |-> "", req |-> req,
            sampleRate |-> IF req.sample_rate = 0 THEN DefaultSampleRate
                           ELSE req.sample_rate,
            roundCount |-> 0, totalAudioSamples |-> 0, audioChunkCount |-> 0,
            last |-> NoFinish, created |-> 1, deleted |-> 0,
            heard |-> <<>>, rounds |-> <<>>]
  IN  [f \in DOMAIN w \cup {"identifier"} |->
         IF f = "identifier" THEN createIdentifier(w) ELSE w[f]]

\* the upgrade, the first identifier and the connection message; the handler
\* returns when that message cannot be written
WsConnect ==
  /\ ws.phase = "none"
  /\ \E req \in WsRequests, written \in BOOLEAN :
       IF written
       THEN /\ ws' = Connected(req)
            /\ out' = <<[type |-> "connection",
                         message |-> "WebSocket connected, ready for audio (multi-round enabled)",
                         sample_rate |-> Connected(req).sampleRate]>>
       ELSE /\ ws' = Return(Connected(req), "write error")
            /\ out' = <<>>
  /\ UNCHANGED <<httpVars, siVars>>

FinishFrame == TextFrame("finish", 19)
CancelFrame == TextFrame("cancel", 19)
CloseFrame == TextFrame("close", 18)

\* the samples read since the last finish or cancel, frame included
Heard(heard, frame) ==
  IF frame \in {FinishFrame, CancelFrame} THEN <<>>
  ELSE IF /\ frame.type = "binary"
          /\ FrameSize(frame) <= MaxMessageSize
          /\ frame.rest = 0
  THEN heard \o frame.samples
  ELSE heard

\* the finish and cancel actions read so far, frame included: the action,
\* whether samples were read for the round it ends, whether
\* FinishAndIdentify failed
Rounds(rounds, frame, heard, last) ==
  IF frame \in {FinishFrame, CancelFrame}
  THEN Append(rounds, [action |-> frame.action, audio |-> heard # <<>>,
                       failed |-> frame = FinishFrame /\ last.err # ""])
  ELSE rounds

\* ReadMessage returns frame and the loop body runs
Receive(frame, faults) ==
  /\ ws.phase = "open"
  /\ \E fault \in faults :
       \E r \in LoopBody(ws, store, frame, fault) :
         /\ ws' = [r.ws EXCEPT !.heard = Heard(@, frame),
                               !.rounds = Rounds(@, frame, ws.heard, r.ws.last)]
         /\ out' = r.sent
  /\ UNCHANGED <<httpVars, siVars>>

\* frames the handler refuses or ignores: a length that is no multiple of 4,
\* messages over the size limit, an unknown action, an object without a
\* string-valued action, a text that is no JSON object
OddFrames ==
  {BinaryFrame(<<1024>>, 2), BinaryFrame(<<>>, 3),
   BinaryFrame([i \in 1..9 |-> 0], 0), TextFrame("finish", 40),
   TextFrame("close", 40),
   TextFrame("ping", 17), TextFrame("", 5), NotJson("finish", 18)}

\* the number of finish or cancel actions read so far
Actions(rounds, action) ==
  Cardinality({i \in 1..Len(rounds) : rounds[i].action = action})

WsChunk ==
  /\ ws.phase = "open"
  /\ ws.audioChunkCount < MaxChunks
  /\ \E samples \in Chunks : Receive(BinaryFrame(samples, 0), {"none"})

WsEmptyFrame ==
  /\ ws.phase = "open"
  /\ Receive(BinaryFrame(<<>>, 0), {"none"})

WsOddFrame ==
  /\ ws.phase = "open"
  /\ \E frame \in OddFrames : Receive(frame, {"none"})

WsFinish ==
  /\ ws.phase = "open"
  /\ ws.roundCount < MaxRounds
  /\ Receive(FinishFrame, FinishFaults)

WsCancel ==
  /\ ws.phase = "open"
  /\ Actions(ws.rounds, "cancel") < MaxCancels
  /\ Receive(CancelFrame, {"none"})

WsClose ==
  /\ ws.phase = "open"
  /\ Receive(CloseFrame, {"none"})

\* the requests POST /identify is called with while the connection is
\* served: without a threshold, with a negative one and with a positive one
ThresholdRequests ==
  {IdentifyReq(StrA, StrBC, EmptyStr, EmptyStr, "wav", AudioXY, 0),
   IdentifyReq(StrA, StrBC, EmptyStr, EmptyStr, "wav", AudioXY, -10),
   IdentifyReq(StrA, StrBC, EmptyStr, EmptyStr, "wav", AudioXY, 90)}

HttpIdentifyMeanwhile ==
  /\ Identify(ThresholdRequests, {"none"})
  /\ UNCHANGED <<siVars, wsVars>>

\* ReadMessage fails: the peer is gone or the read deadline passed
WsReadError ==
  /\ ws.phase = "open"
  /\ ws' = Return(ws, "read error")
  /\ out' = <<>>
  /\ UNCHANGED <<httpVars, siVars>>

-----------------------------------------------------------------------------
(* The searches of QdrantVectorDB on a client that answers scored points
   of any score *)

\* the scores the client answers with, in hundredths: in range, on the
\* limits of the range, and beyond them
SyntheticScores == {-150, -101, -100, -99, 0, 59, 60, 99, 100, 101, 150}

\* the thresholds the searches are called with
SearchThresholds == {-150, -100, 60, 100, 150}

SyntheticPoints ==
  {[payload |-> p.payload, score |-> score] : p \in SeedStore, score \in SyntheticScores}
    \cup {[payload |-> NilPayload, score |-> 100]}

\* what the client answers to a query of limit 1 or 2
SyntheticAnswers ==
  {<<a>> : a \in SyntheticPoints} \cup {<<a, b>> : a, b \in SyntheticPoints}

\* SearchWithOptionalFilters or SearchWithFilter converts an answer of the
\* client
CallSearch ==
  /\ \E search \in {"SearchWithOptionalFilters", "SearchWithFilter"},
        searchPoints \in SyntheticAnswers, threshold \in SearchThresholds :
       resp' = [op |-> "search",
                req |-> [search |-> search, searchPoints |-> searchPoints,
                         threshold |-> threshold],
                fault |-> "none", before |-> store, status |-> 0, err |-> "",
                result |-> ConvertResults(searchPoints, threshold, 1),
                queries |-> <<>>]
  /\ UNCHANGED <<store, iso, clock, writes, vadEnabled, siVars, wsVars>>

-----------------------------------------------------------------------------
(* The VAD trimming on buffers of any length and classification *)

\* the buffers: sample i has the value i, so that a slice shows its bounds
TrimBuffers == {[i \in 1..n |-> i] : n \in 0..MaxTrimLen}

\* the sample rates: multiples of 10 and rates whose tenth has a fraction
TrimRates == {8, 10, 15, 20, 24}

\* Manager.FilterSilenceWithVADKeepEdges on a buffer, the classifier
\* answering flags
CallTrim ==
  /\ \E audioData \in TrimBuffers, sampleRate \in TrimRates :
       \E flags \in FrameFlags(vadEnabled, Len(audioData)) :
         LET f == filterSilenceWithVADKeepEdges(vadEnabled, audioData, sampleRate,
                                                "none", flags)
         IN  resp' = [op |-> "trim",
                      req |-> [audio |-> audioData, sample_rate |-> sampleRate,
                               flags |-> flags],
                      fault |-> "none", before |-> store, status |-> 0,
                      err |-> f.err, result |-> f.audio, queries |-> <<>>]
  /\ UNCHANGED <<store, iso, clock, writes, vadEnabled, siVars, wsVars>>

-----------------------------------------------------------------------------
(* The two VAD trim operations with the pool and the frames they hand to    *)
(* the classifier                                                           *)

\* samples: below -1.0, within the limits, and 1.0
VadSamples == {-2048, 512, 1024}

VadBuffers == UNION {[1..n -> VadSamples] : n \in 0..MaxVadLen}

VadFaults == {"none", "vad-get", "vad-type", "vad-process"}

Builds == {"truncate", "saturate"}

\* the frames the classifier can be made to fail on
FailFrames(fault, n) == IF fault = "vad-process" THEN 1..NumFrames(n) ELSE {0}

VadAnswer(keepEdges, audioData, fault, failAt, flags, build, f) ==
  [op |-> IF keepEdges THEN "trim-edges" ELSE "trim-speech",
   req |-> [audio |-> audioData, sample_rate |-> WavSampleRate, flags |-> flags,
            failAt |-> failAt, build |-> build],
   fault |-> fault, before |-> store, status |-> 0, err |-> f.err,
   result |-> f.audio, queries |-> <<>>,
   pool |-> PoolUse(vadEnabled, fault),
   frames |-> HandedFrames(vadEnabled, audioData, fault, failAt, build)]

\* Manager.filterSilenceWithVAD on a buffer
CallFilterSilence ==
  /\ \E audioData \in VadBuffers, fault \in VadFaults, build \in Builds :
       \E failAt \in FailFrames(fault, Len(audioData)),
          flags \in FrameFlags(vadEnabled, Len(audioData)) :
         resp' = VadAnswer(FALSE, audioData, fault, failAt, flags, build,
                   filterSilenceWithVAD(vadEnabled, audioData, WavSampleRate,
                                        fault, failAt, flags))
  /\ UNCHANGED <<store, iso, clock, writes, vadEnabled, siVars, wsVars>>

\* Manager.filterSilenceWithVADKeepEdges on a buffer
CallFilterSilenceKeepEdges ==
  /\ \E audioData \in VadBuffers, fault \in VadFaults, build \in Builds :
       \E failAt \in FailFrames(fault, Len(audioData)),
          flags \in FrameFlags(vadEnabled, Len(audioData)) :
         resp' = VadAnswer(TRUE, audioData, fault, failAt, flags, build,
                   filterSilenceWithVADKeepEdges(vadEnabled, audioData,
                                                 WavSampleRate, fault, flags))
  /\ UNCHANGED <<store, iso, clock, writes, vadEnabled, siVars, wsVars>>

-----------------------------------------------------------------------------
(* Specifications *)

NoResp ==
  [op |-> "none", req |-> <<>>, fault |-> "none", before |-> {}, status |-> 0,
   err |-> "", result |-> NoResult, queries |-> <<>>]

\* the server is up, nothing is enrolled, no request was made
Init ==
  /\ store = {}
  /\ iso = [u \in Uids |-> {}]
  /\ resp = NoResp
  /\ clock = 0
  /\ writes = <<>>
  /\ vadEnabled \in BOOLEAN
  /\ session = <<>>
  /\ sessionLog = <<>>
  /\ goroutines = <<>>
  /\ ws = <<>>
  /\ out = <<>>

\* a StreamingIdentifier was just created, on an empty store or after one
\* enrolment
InitSession ==
  /\ store \in {{}, SeedStore}
  /\ iso = [u \in Uids |-> {}]
  /\ resp = NoResp
  /\ clock = 0
  /\ writes = <<>>
  /\ vadEnabled = FALSE
  /\ \E threshold \in {0, 90}, speakerID \in {EmptyStr, StrS} :
       session = NewStreamingIdentifier(StrA, StrBC, speakerID, EmptyStr,
                                        WavSampleRate, threshold)
  /\ sessionLog = <<>>
  /\ goroutines = <<>>
  /\ ws = <<>>
  /\ out = <<>>

Next ==
  \/ HttpRegister
  \/ HttpIdentify

Spec == Init /\ [][Next]_vars

NextSession ==
  \/ CallAcceptAudio
  \/ CallFinishAndIdentify
  \/ CallClose

SpecSession == InitSession /\ [][NextSession]_vars

\* the server is up without a VAD pool, nothing is enrolled, and the
\* enrolments to come are made within one second
InitManage ==
  /\ store = {}
  /\ iso = [u \in Uids |-> {}]
  /\ resp = NoResp
  /\ clock = MaxClock
  /\ writes = <<>>
  /\ vadEnabled = FALSE
  /\ session = <<>>
  /\ sessionLog = <<>>
  /\ goroutines = <<>>
  /\ ws = <<>>
  /\ out = <<>>

NextManage ==
  \/ ManageRegister
  \/ CallRegisterSpeaker
  \/ HttpVerify
  \/ HttpDelete
  \/ HttpList
  \/ HttpStats

SpecManage == InitManage /\ [][NextManage]_vars

\* the client of the store is up, no search was made
InitSearch ==
  /\ store = SeedStore
  /\ iso = [u \in Uids |-> {}]
  /\ resp = NoResp
  /\ clock = 0
  /\ writes = <<>>
  /\ vadEnabled = FALSE
  /\ session = <<>>
  /\ sessionLog = <<>>
  /\ goroutines = <<>>
  /\ ws = <<>>
  /\ out = <<>>

NextSearch == CallSearch

SpecSearch == InitSearch /\ [][NextSearch]_vars

\* one identifier, new or holding the audio of an AcceptAudio that returned
\* before the goroutines start
InitRace ==
  /\ store = SeedStore
  /\ iso = [u \in Uids |-> {}]
  /\ resp = NoResp
  /\ clock = 0
  /\ writes = <<>>
  /\ vadEnabled = FALSE
  /\ \E pending \in {<<>>, AudioY} :
       session = [NewStreamingIdentifier(StrA, StrBC, EmptyStr, EmptyStr,
                                         WavSampleRate, 0)
                    EXCEPT !.stream = <<pending>>]
  /\ sessionLog = <<>>
  /\ goroutines = [mutex |-> 0, deleted |-> FALSE, crashed |-> FALSE,
                   begun |-> FALSE, g |-> [i \in 1..MaxGoroutines |-> Idle]]
  /\ ws = <<>>
  /\ out = <<>>

NextRace ==
  \/ GoCall
  \/ GoLock
  \/ GoIsFinished
  \/ GoStreamNil
  \/ GoAcceptWaveform
  \/ GoInputFinished
  \/ GoSetFinished
  \/ GoIsReady
  \/ GoCompute
  \/ GoSearch
  \/ GoCleanup
  \/ GoClear
  \/ GoUnlock

SpecRace == InitRace /\ [][NextRace]_vars

\* the store after two enrolments of one speaker
TwoSamples ==
  RegisterSpeaker(SeedStore, StrA, StrBC, StrS, NameBob, Uuid2, AudioY, "none", 0).store

\* the server is up, with nothing enrolled or after two enrolments of one
\* speaker
InitSamples ==
  /\ store \in {{}, TwoSamples}
  /\ iso = [u \in Uids |-> {}]
  /\ resp = NoResp
  /\ clock = MaxClock
  /\ writes = <<>>
  /\ vadEnabled = FALSE
  /\ session = <<>>
  /\ sessionLog = <<>>
  /\ goroutines = <<>>
  /\ ws = <<>>
  /\ out = <<>>

NextSamples ==
  \/ ManageRegister
  \/ HttpDelete

SpecSamples == InitSamples /\ [][NextSamples]_vars

\* the server is up, with nothing enrolled or after one enrolment
InitEnrol ==
  /\ store \in {{}, SeedStore}
  /\ iso = [u \in Uids |-> {}]
  /\ resp = NoResp
  /\ clock = 1
  /\ writes = <<>>
  /\ vadEnabled = FALSE
  /\ session = <<>>
  /\ sessionLog = <<>>
  /\ goroutines = [initial |-> store, w |-> [i \in 1..MaxWorkers |-> Waiting]]
  /\ ws = <<>>
  /\ out = <<>>

NextEnrol ==
  \/ EnrolExtract
  \/ EnrolCount
  \/ EnrolInsert

SpecEnrol == InitEnrol /\ [][NextEnrol]_vars

\* the Manager is up with a VAD pool
InitVad ==
  /\ store = {}
  /\ iso = [u \in Uids |-> {}]
  /\ resp = NoResp
  /\ clock = 0
  /\ writes = <<>>
  /\ vadEnabled = TRUE
  /\ session = <<>>
  /\ sessionLog = <<>>
  /\ goroutines = <<>>
  /\ ws = <<>>
  /\ out = <<>>

NextVad ==
  \/ CallFilterSilence
  \/ CallFilterSilenceKeepEdges

SpecVad == InitVad /\ [][NextVad]_vars

\* the Manager is up with a VAD pool
InitTrim ==
  /\ store = {}
  /\ iso = [u \in Uids |-> {}]
  /\ resp = NoResp
  /\ clock = 0
  /\ writes = <<>>
  /\ vadEnabled = TRUE
  /\ session = <<>>
  /\ sessionLog = <<>>
  /\ goroutines = <<>>
  /\ ws = <<>>
  /\ out = <<>>

NextTrim == CallTrim

SpecTrim == InitTrim /\ [][NextTrim]_vars

\* the server is up after one enrolment, no connection yet
InitWS ==
  /\ store = SeedStore
  /\ iso = [u \in Uids |-> {}]
  /\ resp = NoResp
  /\ clock = 0
  /\ writes = <<>>
  /\ vadEnabled = FALSE
  /\ session = <<>>
  /\ sessionLog = <<>>
  /\ goroutines = <<>>
  /\ ws = NoConnection
  /\ out = <<>>

NextWS ==
  \/ WsConnect
  \/ WsChunk
  \/ WsEmptyFrame
  \/ WsOddFrame
  \/ WsFinish
  \/ WsCancel
  \/ WsClose
  \/ WsReadError
  \/ HttpIdentifyMeanwhile

SpecWS == InitWS /\ [][NextWS]_vars

-----------------------------------------------------------------------------
(* Properties of the HTTP operations and the store (under Spec) *)

FilterKeys == {"uid", "agent_id", "speaker_id", "speaker_name"}

\* the search an identification submitted, if the last response is one
Searched == resp.op = "identify" /\ resp.queries # <<>>

\* C9: the filter SearchWithOptionalFilters submits holds exactly one
\* equality predicate for each non-empty value among uid, agent_id,
\* speaker_id and speaker_name, none for an empty value, and the query
\* carries no filter when all four are empty
C9_FilterIsTheNonEmptyValues ==
  Searched =>
    LET q == resp.queries[1]
        given == {k \in FilterKeys : resp.req[k] # EmptyStr}
    IN  /\ \A k \in given :
             Cardinality({i \in 1..Len(q.must) : q.must[i].key = k}) = 1
        /\ \A i \in 1..Len(q.must) :
             /\ q.must[i].key \in given
             /\ q.must[i].value = resp.req[q.must[i].key]
        /\ q.hasFilter <=> given # {}

\* a search with some values given and some empty was submitted
C9_Witness ==
  /\ Searched
  /\ resp.req.uid # EmptyStr
  /\ resp.req.agent_id = EmptyStr
  /\ resp.req.speaker_name # EmptyStr
  /\ Len(resp.queries[1].must) = 3

SameSpeaker(p, q) ==
  /\ p.payload.uid = q.payload.uid
  /\ p.payload.agent_id = q.payload.agent_id
  /\ p.payload.speaker_id = q.payload.speaker_id

LastWrite == writes[Len(writes)]

PrevWrite == writes[Len(writes) - 1]

\* the last two upserts were of the same speaker with the same sample_index
Collided ==
  /\ Len(writes) >= 2
  /\ SameSpeaker(PrevWrite.point, LastWrite.point)
  /\ PrevWrite.point.payload.sample_index = LastWrite.point.payload.sample_index

\* the last two upserts were of the same speaker, the store held no point of
\* that speaker before them, and both count queries succeeded
InSequence ==
  /\ Len(writes) >= 2
  /\ SameSpeaker(PrevWrite.point, LastWrite.point)
  /\ PrevWrite.before = 0
  /\ PrevWrite.countOk
  /\ LastWrite.countOk

\* C10: two upserts with the same (uid, agent_id, speaker_id, sample_index)
\* leave exactly one point with that ID, holding the second call's vector
\* and payload; two successful sequential enrolments of one speaker into a
\* store holding no point of it, the count query succeeding, leave exactly
\* two points, with sample_index 0 and 1
C10_UpsertByPointID ==
  /\ Collided =>
       /\ {p \in store : p.id = LastWrite.point.id} = {LastWrite.point}
       /\ {p \in store : /\ SameSpeaker(p, LastWrite.point)
                         /\ p.payload.sample_index
                              = LastWrite.point.payload.sample_index}
            = {LastWrite.point}
  /\ InSequence =>
       LET mine == {p \in store : SameSpeaker(p, LastWrite.point)}
       IN  /\ Cardinality(mine) = 2
           /\ {p.payload.sample_index : p \in mine} = {0, 1}
           /\ mine = {PrevWrite.point, LastWrite.point}

\* a second enrolment fell on the sample_index of the first, with another
\* vector
C10_Witness ==
  /\ Collided
  /\ PrevWrite.point.vector # LastWrite.point.vector
  /\ resp.op = "register"
  /\ resp.status = 200

\* the last response is a successful identification of audio a with the
\* filters (uid, agent_id) and the default threshold
IdentifiedWith(uid, agentID, a) ==
  /\ resp.op = "identify"
  /\ resp.status = 200
  /\ resp.req.uid = uid
  /\ resp.req.agent_id = agentID
  /\ resp.req.speaker_id = EmptyStr
  /\ resp.req.speaker_name = EmptyStr
  /\ resp.req.threshold = 0
  /\ resp.req.audio = a

\* the tuple a point ID is made from
KeyTuple(p) ==
  <<p.payload.uid, p.payload.agent_id, p.payload.speaker_id, p.payload.sample_index>>

KeyOf(p) ==
  PointKey(p.payload.uid, p.payload.agent_id, p.payload.speaker_id,
           p.payload.sample_index)

\* C40: points written for different (uid, agent_id, speaker_id,
\* sample_index) have different key strings, also when the identifiers hold
\* ':'; and a successful enrolment leaves every point of another (uid,
\* agent_id) in the store
C40_KeyTellsTuplesApart ==
  /\ \A i, j \in 1..Len(writes) :
       KeyTuple(writes[i].point) # KeyTuple(writes[j].point)
         => KeyOf(writes[i].point) # KeyOf(writes[j].point)
  /\ (resp.op = "register" /\ resp.status = 200) =>
       \A p \in resp.before :
         (p.payload.uid # resp.req.uid \/ p.payload.agent_id # resp.req.agent_id)
           => p \in store

\* C7: an identification with a non-empty uid filter answers as it would
\* had nothing been enrolled under any other uid
C7_TenantIsolation ==
  (resp.op = "identify" /\ resp.status = 200 /\ resp.req.uid # EmptyStr) =>
    \E o \in HandleIdentify(iso[resp.req.uid], resp.req, "none") :
      o.result = resp.result

Rivals(w) ==
  {p \in store : /\ p.payload.uid = w.req.uid
                 /\ p.payload.agent_id = w.req.agent_id
                 /\ p.payload.speaker_id # w.req.speaker_id
                 /\ CosineScore(p.vector, w.point.vector)
                      >= CosineScore(w.point.vector, w.point.vector)}

Registering(f) == resp.op = "register" /\ resp.fault = f

\* the request has its five fields and a WAV file the extractor can use as
\* it is
Enrollable(req) ==
  /\ \A k \in {"uid", "agent_id", "speaker_id", "speaker_name", "uuid"} :
       req[k] # EmptyStr
  /\ req.file = "wav"
  /\ IsReady(req.audio)

\* C11: the point an enrolment writes has sample_index = the number of
\* points matching (uid, agent_id, speaker_id) at that time when the count
\* query answered, and 0 when it failed; a failed count query does not abort
\* the enrolment, which succeeds when the upsert does
C11_SampleIndexIsTheCount ==
  /\ \A i \in 1..Len(writes) :
       writes[i].point.payload.sample_index
         = IF writes[i].countOk THEN writes[i].before ELSE 0
  /\ Registering("count") =>
       /\ (Enrollable(resp.req) /\ ~vadEnabled) => resp.status = 200
       /\ resp.status # 200 =>
            \/ resp.status = 400
            \/ resp.err = "failed to register speaker: failed to extract embedding: "
                             \o "insufficient audio data for embedding extraction"
       /\ resp.status = 200 =>
            /\ ~LastWrite.countOk
            /\ LastWrite.req = resp.req
            /\ LastWrite.point.payload.sample_index = 0
            /\ LastWrite.point \in store

\* an enrolment whose count query failed succeeded with sample_index 0 while
\* a point of the speaker, written with sample_index 0 after a count query
\* that answered, was stored
C11_Witness ==
  /\ Registering("count")
  /\ resp.status = 200
  /\ Len(writes) = 2
  /\ PrevWrite.countOk
  /\ LastWrite.before = 1
  /\ LastWrite.point.payload.sample_index = 0

MismatchError ==
  "failed to register speaker: embedding dimension mismatch: expected "
    \o ToString(EmbeddingDim) \o ", got " \o ToString(EmbeddingDim - 1)

\* C12: when the extractor returns an embedding whose length is not D, the
\* enrolment fails (POST /register answers 500 with the mismatch error) and
\* the store holds the same points after the call as before
C12_MismatchInsertsNothing ==
  /\ Registering("compute-short") =>
       /\ resp.status \in {400, 500}
       /\ store = resp.before
       /\ (Enrollable(resp.req) /\ ~vadEnabled) => resp.err = MismatchError
  /\ (resp.op = "register" /\ resp.err = MismatchError) =>
       /\ resp.status = 500
       /\ store = resp.before

\* an enrolment was refused for the dimension of its embedding while a point
\* was stored
C12_Witness ==
  /\ Registering("compute-short")
  /\ resp.err = MismatchError
  /\ resp.status = 500
  /\ store # {}

-----------------------------------------------------------------------------
(* Properties of the operations that manage speakers (under SpecManage) *)

EnrolFields == {"uid", "agent_id", "speaker_id", "speaker_name", "uuid"}

\* C13: every stored point has a non-empty uid, agent_id, speaker_id,
\* speaker_name and uuid, and an enrolment with one of the five empty, made
\* through POST /register or by calling Manager.RegisterSpeaker, fails and
\* leaves the store as it was
C13_EnrolledFieldsAreSet ==
  /\ \A p \in store : \A k \in EnrolFields : p.payload[k] # EmptyStr
  /\ (/\ resp.op \in {"register", "RegisterSpeaker"}
      /\ \E k \in EnrolFields : resp.req[k] = EmptyStr) =>
       /\ resp.err # ""
       /\ store = resp.before

\* the points of the speaker a verification or a deletion names: those of
\* uid and speaker_id, and of agent_id when one is given
PointsOfSpeaker(points, req) ==
  {p \in points : /\ p.payload.uid = req.uid
                  /\ p.payload.speaker_id = req.speaker_id
                  /\ req.agent_id # EmptyStr => p.payload.agent_id = req.agent_id}

\* the last response answers a POST /verify that reached the Manager with
\* audio the extractor can use, and no external call failed
Verifying ==
  /\ resp.op = "verify"
  /\ resp.fault = "none"
  /\ resp.req.uid # EmptyStr
  /\ resp.req.speaker_id # EmptyStr
  /\ resp.req.file = "wav"
  /\ IsReady(resp.req.audio)

\* the score of stored point p against the audio of the last request
VerifyScore(p) == Clamp(CosineScore(p.vector, Compute(resp.req.audio, "none")))

\* C17: VerifySpeaker returns verified = true, with the confidence and the
\* speaker_name of a best scoring point, exactly when a point of uid and
\* speaker_id (and agent_id if given) scores at or above the default
\* threshold; otherwise, when the speaker has a point, verified = false,
\* confidence = 0 and the speaker_name of a point of the speaker; with no
\* point it fails with an error containing "not found"
C17_VerifyOutcome ==
  Verifying =>
    LET mine == PointsOfSpeaker(store, resp.req)
        top == {p \in mine : \A q \in mine : VerifyScore(q) <= VerifyScore(p)}
    IN  IF \E p \in mine : VerifyScore(p) >= DefaultThreshold
        THEN /\ resp.err = ""
             /\ resp.result.Verified
             /\ resp.result.SpeakerID = resp.req.speaker_id
             /\ resp.result.Threshold = DefaultThreshold
             /\ \E p \in top : /\ resp.result.Confidence = VerifyScore(p)
                                /\ resp.result.SpeakerName = p.payload.speaker_name
        ELSE IF mine # {}
        THEN /\ resp.err = ""
             /\ ~resp.result.Verified
             /\ resp.result.Confidence = 0
             /\ resp.result.SpeakerID = resp.req.speaker_id
             /\ resp.result.Threshold = DefaultThreshold
             /\ \E p \in mine : resp.result.SpeakerName = p.payload.speaker_name
        ELSE Contains(resp.err, "not found")

\* a speaker enrolled under two names was not verified, and one of the names
\* was returned with confidence 0
C17_Witness ==
  /\ Verifying
  /\ resp.status = 200
  /\ ~resp.result.Verified
  /\ resp.result.Confidence = 0
  /\ resp.result.SpeakerName # EmptyStr
  /\ Cardinality({p.payload.speaker_name : p \in PointsOfSpeaker(store, resp.req)}) = 2

\* C18: POST /verify/:speaker_id for a (uid, speaker_id) without an enrolled
\* point is answered with status 404
C18_VerifyAbsentIs404 ==
  (Verifying /\ PointsOfSpeaker(store, resp.req) = {}) => resp.status = 404

\* the last response answers a DELETE with a uid and the uuid parameter
DeletingByUUID ==
  /\ resp.op = "delete"
  /\ resp.req.uid # EmptyStr
  /\ resp.req.uuid # EmptyStr

\* the points a deletion by uuid names
PointsOfUUID(points, req) ==
  {p \in points : /\ p.payload.uid = req.uid
                  /\ p.payload.uuid = req.uuid
                  /\ req.agent_id # EmptyStr => p.payload.agent_id = req.agent_id}

\* C19: a deletion by uuid removes the points of uid and uuid (and agent_id
\* if given) and no other; with no such point it fails with a "not found"
\* error, status 404, and leaves the store as it was; the same call made
\* right after one that succeeded is answered 404
C19_DeleteByUUID ==
  /\ (DeletingByUUID /\ resp.fault = "none") =>
       LET matching == PointsOfUUID(resp.before, resp.req)
       IN  IF matching = {}
           THEN /\ resp.status = 404
                /\ Contains(resp.err, "not found")
                /\ store = resp.before
           ELSE /\ resp.status = 200
                /\ store = resp.before \ matching
  /\ (DeletingByUUID /\ resp.fault = "none" /\ resp.repeat) =>
       resp.status = 404 /\ store = resp.before

\* a deletion by uuid that had just succeeded was repeated and answered 404,
\* a point of another uuid being stored
C19_Witness ==
  /\ DeletingByUUID
  /\ resp.repeat
  /\ resp.status = 404
  /\ \E i \in 1..Len(writes) : writes[i].point \in PointsOfUUID({writes[i].point}, resp.req)
  /\ store # {}

\* the last response answers a DELETE with a uid and a speaker_id, without
\* the uuid parameter
DeletingBySpeaker ==
  /\ resp.op = "delete"
  /\ resp.req.uid # EmptyStr
  /\ resp.req.uuid = EmptyStr
  /\ resp.req.speaker_id # EmptyStr

\* C20: a deletion by speaker removes the points of uid and speaker_id (and
\* agent_id if given) and leaves every other point as it was; with no such
\* point it succeeds and changes nothing, so that the call repeated has no
\* effect
C20_DeleteBySpeaker ==
  /\ (DeletingBySpeaker /\ resp.fault = "none") =>
       /\ resp.status = 200
       /\ store = resp.before \ PointsOfSpeaker(resp.before, resp.req)
  /\ (DeletingBySpeaker /\ resp.fault = "none" /\ resp.repeat) =>
       resp.status = 200 /\ store = resp.before

\* a deletion by speaker with an agent_id removed a point and left a point
\* of the same uid and speaker_id under another agent_id
C20_Witness ==
  /\ DeletingBySpeaker
  /\ resp.req.agent_id # EmptyStr
  /\ resp.status = 200
  /\ store # resp.before
  /\ \E p \in store : /\ p.payload.uid = resp.req.uid
                       /\ p.payload.speaker_id = resp.req.speaker_id
                       /\ p.payload.agent_id # resp.req.agent_id

\* the last response is a list of speakers the store answered for
Listing == resp.op = "list" /\ resp.status = 200 /\ resp.fault = "none"

\* the points a list request is about
Listed(points, req) ==
  {p \in points : /\ p.payload.uid = req.uid
                  /\ req.agent_id # EmptyStr => p.payload.agent_id = req.agent_id}

Triple(p) == <<p.payload.uid, p.payload.agent_id, p.payload.speaker_id>>

\* info is the SpeakerInfo of the points `of`, which share their triple
InfoOf(info, of) ==
  /\ \E p \in of : info.ID = p.payload.speaker_id /\ info.AgentID = p.payload.agent_id
  /\ info.SampleCount = Cardinality(of)
  /\ info.CreatedAt = SetMin({p.payload.created_at : p \in of})
  /\ info.UpdatedAt = SetMax({p.payload.updated_at : p \in of})

\* C21: the list of (uid, agent_id) holds exactly one SpeakerInfo for each
\* distinct (uid, agent_id, speaker_id) among the points matching the
\* filter, with sample_count the number of points of the triple, created_at
\* their minimum created_at and updated_at their maximum updated_at, also
\* when agent_id is empty and a speaker_id is enrolled under two agent_ids
C21_OneInfoPerTriple ==
  Listing =>
    LET points == Listed(resp.before, resp.req)
        triples == {Triple(p) : p \in points}
    IN  /\ Cardinality(resp.result.speakers) = Cardinality(triples)
        /\ resp.result.total = Cardinality(triples)
        /\ \A t \in triples :
             \E info \in resp.result.speakers :
               InfoOf(info, {p \in points : Triple(p) = t})

\* the points the scroll of the last DELETE request asks for
PointsToDelete ==
  IF resp.req.uuid # EmptyStr THEN PointsOfUUID(resp.before, resp.req)
  ELSE PointsOfSpeaker(resp.before, resp.req)

\* a request to the store failed during the last HTTP request: the handler
\* did not refuse the request, and the operation got as far as the failing
\* request
StoreFailed ==
  /\ resp.status # 400
  /\ \/ resp.op \in {"list", "stats"} /\ resp.fault = "scroll"
     \/ resp.op = "delete" /\ resp.fault = "scroll"
     \/ resp.op = "delete" /\ resp.fault = "delete" /\ PointsToDelete # {}
     \/ /\ resp.op = "verify"
        /\ IsReady(resp.req.audio)
        /\ \/ resp.fault = "search"
           \/ /\ resp.fault = "info"
              /\ \A p \in PointsOfSpeaker(resp.before, resp.req) :
                   VerifyScore(p) < DefaultThreshold

\* C22: apart from the sample-count query of an enrolment, a failure of a
\* store request during an HTTP operation is answered 500 with a message,
\* never with success: a failed scroll of GET /speakers or GET /stats does
\* not give a 200 with an empty list or zero counts
C22_StoreFailureIs500 ==
  StoreFailed => resp.status = 500 /\ resp.err # ""

\* C31: GET /stats without a uid answers with the statistics of the whole
\* store: total_samples is the number of points of all uids, speaker_count
\* the number of their distinct (uid, agent_id, speaker_id)
C31_StatsWithoutUidAreGlobal ==
  (resp.op = "stats" /\ resp.req.uid = EmptyStr /\ resp.fault = "none") =>
    /\ resp.result.total_samples = Cardinality(resp.before)
    /\ resp.result.speaker_count = Cardinality({Triple(p) : p \in resp.before})

-----------------------------------------------------------------------------
(* Properties of one StreamingIdentifier (under SpecSession) *)

FinishCalled(i) == sessionLog[i].call = "FinishAndIdentify"

LaterUse(j) == sessionLog[j].call \in {"AcceptAudio", "FinishAndIdentify"}

\* call i is a Close made before any FinishAndIdentify
ClosedUnfinished(i) ==
  /\ i \in 1..Len(sessionLog)
  /\ sessionLog[i].call = "Close"
  /\ \A k \in 1..(i - 1) : sessionLog[k].call # "FinishAndIdentify"

\* C32: on a session closed without having been finished, every later
\* AcceptAudio and FinishAndIdentify returns "stream already finished" and
\* makes no call on the accumulator
C32_ClosedIsFinished ==
  \A j \in 1..Len(sessionLog) :
    (LaterUse(j) /\ \E i \in 1..(j - 1) : ClosedUnfinished(i)) =>
      /\ sessionLog[j].err = "stream already finished"
      /\ sessionLog[j].ops = <<>>

\* call i is a FinishAndIdentify made before any other FinishAndIdentify and
\* before any Close
FinishedWhileOpen(i) ==
  /\ FinishCalled(i)
  /\ \A k \in 1..(i - 1) : sessionLog[k].call = "AcceptAudio"

RECURSIVE DeletesFrom(_)
DeletesFrom(i) ==
  IF i > Len(sessionLog) THEN 0
  ELSE Cardinality({k \in 1..Len(sessionLog[i].ops) :
                      sessionLog[i].ops[k] = "DeleteOnlineStream"})
       + DeletesFrom(i + 1)

Releasing(i) == sessionLog[i].call \in {"FinishAndIdentify", "Close"}

\* C3: over any sequence of calls with a FinishAndIdentify or a Close, the
\* accumulator is deleted exactly once, by the first of them (a finish that
\* succeeds or fails on any of its error paths, or a Close), and never again;
\* Close never fails
C3_ReleasedExactlyOnce ==
  /\ (\E i \in 1..Len(sessionLog) : Releasing(i)) <=> DeletesFrom(1) = 1
  /\ DeletesFrom(1) <= 1
  /\ \A i \in 1..Len(sessionLog) :
       /\ (Releasing(i) /\ \A k \in 1..(i - 1) : ~Releasing(k)) =>
            /\ sessionLog[i].ops # <<>>
            /\ sessionLog[i].ops[Len(sessionLog[i].ops)] = "DeleteOnlineStream"
       /\ sessionLog[i].call = "Close" => sessionLog[i].err = ""
  /\ (session.stream = <<>>) <=> DeletesFrom(1) = 1

\* a finish failed on the search, and a Close and another finish followed
C3_Witness ==
  \E i, j, k \in 1..Len(sessionLog) :
    /\ i < j /\ j < k
    /\ FinishedWhileOpen(i)
    /\ sessionLog[i].err
         = "failed to search in vector database: failed to search: " \o Cause
    /\ sessionLog[j].call = "Close"
    /\ FinishCalled(k)
    /\ DeletesFrom(1) = 1

-----------------------------------------------------------------------------
(* Properties of one WebSocket connection (under SpecWS) *)

LastRound(w) == w.rounds[Len(w.rounds)]

\* the step reads a finish (or cancel) action on the open connection
Reads(action) ==
  /\ ws.phase = "open"
  /\ Len(ws'.rounds) = Len(ws.rounds) + 1
  /\ LastRound(ws').action = action

FinishSucceeds == Reads("finish") /\ ~LastRound(ws').failed

FinishFails == Reads("finish") /\ LastRound(ws').failed

\* si is an OPEN session without samples, with the parameters of the
\* connection, which are those of the session it replaces
FreshSession(si) ==
  /\ ~si.isFinished
  /\ si.stream = << <<>> >>
  /\ si.uid = ws.req.uid
  /\ si.agentID = ws.req.agent_id
  /\ si.speakerID = ws.req.speaker_id
  /\ si.speakerName = ws.req.speaker_name
  /\ si.sampleRate = ws.sampleRate
  /\ si.threshold = IF ws.req.threshold > 0 THEN ws.req.threshold ELSE DefaultThreshold
  /\ \A f \in {"uid", "agentID", "speakerID", "speakerName", "sampleRate", "threshold"} :
       si[f] = ws.identifier[f]

\* C1: a finish action whose FinishAndIdentify succeeds makes the server
\* send exactly one result message with round = n, the number of finish
\* actions so far, then exactly one ready message with round = n + 1,
\* leaves the connection open and replaces the session by a fresh OPEN one
\* with the same parameters
C1_ResultThenReady ==
  [][FinishSucceeds =>
       LET n == Actions(ws'.rounds, "finish")
       IN  /\ out' = <<[type |-> "result", result |-> ws'.last.result, round |-> n],
                       [type |-> "ready", message |-> "Ready for next round",
                        round |-> n + 1]>>
           /\ ws'.phase = "open"
           /\ FreshSession(ws'.identifier)]_vars

\* two consecutive rounds succeeded: result 2 and ready 3 were sent
C1_Witness ==
  /\ ws.phase = "open"
  /\ Len(ws.rounds) = 2
  /\ \A i \in 1..2 : ws.rounds[i].action = "finish" /\ ~ws.rounds[i].failed
  /\ Len(out) = 2
  /\ out[1].type = "result" /\ out[1].round = 2
  /\ out[2].type = "ready" /\ out[2].round = 3

FinishErrors ==
  {"insufficient audio data for embedding extraction",
   "failed to extract embedding",
   "failed to search in vector database: failed to search: " \o Cause}

\* C4: when FinishAndIdentify fails in a round, the server sends exactly one
\* error message with the failure text and no result, keeps the connection
\* open and replaces the session by a fresh OPEN one (a later round can
\* then produce a result: C4_Witness)
C4_FailedRoundIsReset ==
  [][FinishFails =>
       /\ ws'.last.err \in FinishErrors
       /\ Len(out') = 1
       /\ out'[1].type = "error"
       /\ out'[1].message = ws'.last.err
       /\ ws'.phase = "open"
       /\ FreshSession(ws'.identifier)]_vars

\* a round failed and the next round on the connection produced a result
C4_Witness ==
  /\ ws.phase = "open"
  /\ Len(ws.rounds) = 2
  /\ ws.rounds[1].action = "finish" /\ ws.rounds[1].failed
  /\ ws.rounds[2].action = "finish" /\ ~ws.rounds[2].failed
  /\ Len(out) = 2
  /\ out[1].type = "result"
  /\ out[1].result.Identified

\* Manager.IdentifySpeaker on the samples read since the last finish or
\* cancel, as the reference for what a round may return
RoundResults ==
  {o.result : o \in IdentifySpeaker(store, ws.req.uid, ws.req.agent_id,
                                    ws.req.speaker_id, ws.req.speaker_name,
                                    ws.heard, ws.req.threshold, "none")}

\* C5: a cancel action closes the current session, creates a fresh OPEN one,
\* sends exactly one cancelled message and keeps the connection open; a
\* round identifies the samples read since the last finish or cancel and no
\* others
C5_CancelStartsAfresh ==
  [][/\ Reads("cancel") =>
          /\ Len(out') = 1
          /\ out'[1].type = "cancelled"
          /\ ws'.phase = "open"
          /\ FreshSession(ws'.identifier)
          /\ ws'.deleted = ws.deleted + 1
          /\ ws'.created = ws.created + 1
     /\ Reads("finish") =>
          (ws'.last.err = "insufficient audio data for embedding extraction"
             <=> ~IsReady(ws.heard))
     /\ FinishSucceeds => ws'.last.result \in RoundResults]_vars

\* a round with samples was cancelled, and the next round identified its own
\* samples with full confidence
C5_Witness ==
  /\ ws.phase = "open"
  /\ Len(ws.rounds) = 2
  /\ ws.rounds[1].action = "cancel" /\ ws.rounds[1].audio
  /\ ws.rounds[2].action = "finish" /\ ws.rounds[2].audio
  /\ ws.last.result.Identified
  /\ ws.last.result.Confidence = 100
  /\ ws.created = 3
  /\ ws.deleted = 2

\* the first round was cancelled after samples were read, and the next round
\* has just been completed
CancelledThenCompleted ==
  /\ ws.phase = "open"
  /\ ws.rounds = <<[action |-> "cancel", audio |-> TRUE, failed |-> FALSE],
                   [action |-> "finish", audio |-> TRUE, failed |-> FALSE]>>
  /\ Len(out) = 2
  /\ out[1].type = "result"

\* C6: when the first round is cancelled after some chunks and a full round
\* is then completed, the result message of that round carries round = 2
C6_ResultRoundIsTwo == CancelledThenCompleted => out[1].round = 2

\* C6 (amended): when the first round is cancelled after some chunks and a
\* full round is then completed, the result message of that round carries
\* round = 1 and the ready message after it round = 2: a cancel does not
\* advance the round counter
C6_ResultRoundIsOne ==
  CancelledThenCompleted => out[1].round = 1 /\ out[2].round = 2

\* such a round was completed and identified the speaker
C6_Witness == CancelledThenCompleted /\ out[1].result.Identified

\* the last response is the result of a POST /identify
Identifying == resp.op = "identify" /\ resp.status = 200

\* what the threshold-filtered top-1 search can return for the filters of
\* req and the embedding of samples
Found(points, req, samples, threshold) ==
  {s.results : s \in SearchWithOptionalFilters(points, req.uid, req.agent_id,
                                               req.speaker_id, req.speaker_name,
                                               Compute(samples, "none"),
                                               threshold, 1, "none")}

\* result is what the claim requires for the search results `results`
AsTheSearchReturned(results, result) ==
  IF Len(results) >= 1
  THEN /\ result.Identified
       /\ result.SpeakerID = results[1].SpeakerID
       /\ result.SpeakerName = results[1].SpeakerName
       /\ result.Confidence = results[1].Confidence
       /\ result.Confidence >= result.Threshold
  ELSE /\ ~result.Identified
       /\ result.SpeakerID = EmptyStr
       /\ result.SpeakerName = EmptyStr
       /\ result.Confidence = 0

\* C14: IdentifySpeaker and FinishAndIdentify return identified = true
\* exactly when the top-1 search filtered with the threshold they report
\* returned a point, then with the speaker_id, speaker_name and confidence
\* of the first point and confidence >= that threshold; otherwise identified
\* = false, speaker_id and speaker_name empty and confidence = 0
C14_IdentifiedIffFound ==
  /\ [](Identifying =>
          \E results \in Found(store, resp.req, resp.req.audio, resp.result.Threshold) :
            AsTheSearchReturned(results, resp.result))
  /\ [][FinishSucceeds =>
          \E results \in Found(store, ws.req, ws.heard, ws'.last.result.Threshold) :
            AsTheSearchReturned(results, ws'.last.result)]_vars

\* a round identified the enrolled speaker with confidence 0.70 and a
\* POST /identify found nobody
C14_Witness ==
  /\ ws.phase = "open"
  /\ Len(ws.rounds) >= 1
  /\ LastRound(ws).action = "finish"
  /\ ws.last.result.Identified
  /\ ws.last.result.SpeakerID = StrS
  /\ ws.last.result.Confidence = 70
  /\ Identifying
  /\ ~resp.result.Identified

\* the threshold of a call given the parameter `given` (0: none given)
ExpectedThreshold(given) == IF given > 0 THEN given ELSE DefaultThreshold

\* the points the filters of req admit
FilteredBy(points, req) ==
  {p \in points : \A k \in FilterKeys : req[k] # EmptyStr => p.payload[k] = req[k]}

\* a point the filters of req admit scores at least threshold against samples
Reaches(points, req, samples, threshold) ==
  \E p \in FilteredBy(points, req) :
    CosineScore(p.vector, Compute(samples, "none")) >= threshold

\* C15: the threshold reported in a result, and the one the search was
\* filtered with, is the threshold of the request when it is > 0 and the
\* default otherwise, in a POST /identify and in every round of a
\* connection, whose sessions all carry that threshold
C15_ThresholdResolution ==
  /\ [](Identifying =>
          LET t == ExpectedThreshold(resp.req.threshold)
          IN  /\ resp.result.Threshold = t
              /\ resp.result.Identified
                   <=> Reaches(store, resp.req, resp.req.audio, t))
  /\ [](ws.phase = "open" =>
          ws.identifier.threshold = ExpectedThreshold(ws.req.threshold))
  /\ [][FinishSucceeds =>
          LET t == ExpectedThreshold(ws.req.threshold)
          IN  /\ ws'.last.result.Threshold = t
              /\ ws'.last.result.Identified <=> Reaches(store, ws.req, ws.heard, t)]_vars

\* on a connection with threshold 0.90 the second round found nobody, while
\* a POST /identify with a negative threshold identified the speaker with
\* confidence 0.70 under the default threshold
C15_Witness ==
  /\ ws.phase = "open"
  /\ ws.req.threshold = 90
  /\ Len(ws.rounds) = 2
  /\ \A i \in 1..2 : ws.rounds[i].action = "finish" /\ ~ws.rounds[i].failed
  /\ ws.last.result.Threshold = 90
  /\ ~ws.last.result.Identified
  /\ Identifying
  /\ resp.req.threshold < 0
  /\ resp.result.Threshold = DefaultThreshold
  /\ resp.result.Identified
  /\ resp.result.Confidence = 70

\* the binary frames within the size limit whose length is no multiple of 4
Misaligned ==
  {f \in OddFrames : /\ f.type = "binary"
                     /\ FrameSize(f) <= MaxMessageSize
                     /\ FrameSize(f) % 4 # 0}

\* C23: a binary frame whose length is no multiple of 4 makes the server
\* send exactly one error message "invalid audio data length"; no sample is
\* accepted, the session, the round counter and the sample counters stay as
\* they are and the connection stays open for the next message
C23_MisalignedFrameIsRefused ==
  [][\A frame \in Misaligned :
       Receive(frame, {"none"}) =>
         /\ out' = <<[type |-> "error", message |-> "invalid audio data length"]>>
         /\ ws' = ws
         /\ ws'.phase = "open"]_vars

\* a misaligned frame was refused after a chunk had been accepted
C23_Witness ==
  /\ ws.phase = "open"
  /\ out = <<[type |-> "error", message |-> "invalid audio data length"]>>
  /\ ws.audioChunkCount = 1
  /\ ws.identifier.stream # << <<>> >>

\* the frames, binary or text, over the size limit
Oversize == {f \in OddFrames : FrameSize(f) > MaxMessageSize}

\* C24: with a maximum message size configured, an inbound frame longer
\* than the maximum, binary or text, makes the server send exactly one error
\* message "message too large" and is dropped: it is not accepted as audio
\* and not read as an action, and the connection stays open
C24_OversizeFrameIsDropped ==
  [][\A frame \in Oversize :
       Receive(frame, {"none"}) =>
         /\ MaxMessageSize > 0
         /\ out' = <<[type |-> "error", message |-> "message too large"]>>
         /\ ws' = ws
         /\ ws'.phase = "open"]_vars

\* an oversize frame was dropped in a round that holds audio and that no
\* finish has ended
C24_Witness ==
  /\ ws.phase = "open"
  /\ out = <<[type |-> "error", message |-> "message too large"]>>
  /\ ws.heard # <<>>
  /\ ws.rounds = <<>>
  /\ \E f \in Oversize : f.type = "text" /\ f.action = "finish"

\* the binary frames within the size limit whose length is a multiple of 4
Aligned == {BinaryFrame(samples, 0) : samples \in Chunks \cup {<<>>}}

\* C25: a binary frame within the size limit whose length is a multiple of
\* 4, length 0 included, is accepted into the current session and answered
\* with exactly one audio_received message with samples = length / 4, and
\* the handler goes on reading
C25_AlignedFrameIsAccepted ==
  [][\A frame \in Aligned :
       Receive(frame, {"none"}) =>
         /\ out' = <<[type |-> "audio_received", samples |-> FrameSize(frame) \div 4]>>
         /\ ws'.phase = "open"
         /\ ws'.identifier.stream = <<ws.identifier.stream[1] \o frame.samples>>
         /\ ws'.heard = ws.heard \o frame.samples]_vars

\* the text frames within the size limit that carry no action the handler
\* knows
Ignored ==
  {f \in OddFrames : /\ f.type = "text"
                     /\ FrameSize(f) <= MaxMessageSize
                     /\ ~f.json \/ f.action \notin {"finish", "cancel", "close"}}

\* C26: a text frame that is no JSON object, has no string-valued action or
\* an action other than finish, cancel and close changes nothing: session,
\* audio and round counter stay, no message is sent, the connection stays
\* open
C26_UnknownTextIsIgnored ==
  [][\A frame \in Ignored :
       Receive(frame, {"none"}) =>
         /\ out' = <<>>
         /\ ws' = ws
         /\ ws'.phase = "open"]_vars

\* a text frame was ignored in a round that holds audio
C26_Witness ==
  /\ ws.phase = "open"
  /\ out = <<>>
  /\ ws.audioChunkCount >= 1
  /\ ws.heard # <<>>
  /\ Cardinality(Ignored) = 3

\* C27: a close action makes the server send exactly one closing message and
\* return: no result is produced for the audio of the unfinished round, the
\* accumulator of the current session is released, and nothing read after
\* it is processed
C27_CloseStops ==
  /\ [][Receive(CloseFrame, {"none"}) =>
          /\ out' = <<[type |-> "closing", message |-> "Connection closing",
                       total_rounds |-> ws.roundCount]>>
          /\ ws'.phase = "closed"
          /\ ws'.last = ws.last
          /\ ws'.roundCount = ws.roundCount
          /\ ws'.identifier.stream = <<>>
          /\ ws'.deleted = ws'.created]_vars
  /\ [][ws.phase = "closed" => ws' = ws /\ out' = out]_vars

\* the connection was closed by a close action in a round that held audio
C27_Witness ==
  /\ ws.phase = "closed"
  /\ ws.end = "close"
  /\ ws.heard # <<>>
  /\ Len(out) = 1
  /\ out[1].type = "closing"
  /\ ws.deleted = ws.created

\* C29: every finish action read is answered, in the step that reads it and
\* so before the next message is read, by exactly one message that is a
\* result or an error, and that message carries the round of the finish
C29_FinishIsAnswered ==
  [][Reads("finish") =>
       /\ Cardinality({i \in DOMAIN out' : out'[i].type \in {"result", "error"}}) = 1
       /\ out'[1].type \in {"result", "error"}
       /\ out'[1].round = Actions(ws'.rounds, "finish")
       /\ out'[1].type = "error" <=> LastRound(ws').failed]_vars

\* the first round produced a result and the second, without audio, an
\* error with round = 2
C29_Witness ==
  /\ ws.phase = "open"
  /\ Len(ws.rounds) = 2
  /\ ws.rounds[1].action = "finish" /\ ~ws.rounds[1].failed
  /\ ws.rounds[2].action = "finish" /\ ws.rounds[2].failed /\ ~ws.rounds[2].audio
  /\ Len(out) = 1
  /\ out[1].type = "error"
  /\ out[1].round = 2

\* C35: while the handler reads messages its current session is open, not
\* finished and holding its accumulator, whatever was read before; no
\* AcceptAudio of the handler fails on the state of the session and the
\* handler never returns for that reason
C35_SessionIsOpen ==
  /\ ws.phase = "open" =>
       ~ws.identifier.isFinished /\ ws.identifier.stream # <<>>
  /\ ws.phase = "closed" => ws.end # "accept error"
  /\ \A k \in 1..Len(out) :
       out[k].type = "error" =>
         out[k].message \notin {"stream already finished", "stream is nil"}

\* a chunk was accepted into the open session after a failed finish and a
\* cancel
C35_Witness ==
  /\ ws.phase = "open"
  /\ \E i \in 1..Len(ws.rounds) : ws.rounds[i].action = "finish" /\ ws.rounds[i].failed
  /\ \E i \in 1..Len(ws.rounds) : ws.rounds[i].action = "cancel"
  /\ ws.heard # <<>>
  /\ ws.identifier.stream = <<ws.heard>>
  /\ Len(out) = 1 /\ out[1].type = "audio_received"

\* C36: a connection holds at most one accumulator at any moment, one while
\* it is served; one is created at the start and one for each finish or
\* cancel; when the handler has returned, by whatever path, as many were
\* deleted as were created and none is held
C36_OneAccumulator ==
  ws.phase # "none" =>
    /\ ws.created - ws.deleted \in {0, 1}
    /\ ws.created = 1 + Len(ws.rounds)
    /\ ws.phase = "open" =>
         ws.created - ws.deleted = 1 /\ ws.identifier.stream # <<>>
    /\ ws.phase = "closed" =>
         ws.deleted = ws.created /\ ws.identifier.stream = <<>>

\* the handler returned on a read error in the third session of the
\* connection, after a failed finish and a cancel
C36_Witness ==
  /\ ws.phase = "closed"
  /\ ws.end = "read error"
  /\ Len(ws.rounds) = 2
  /\ \E i \in 1..2 : ws.rounds[i].action = "finish" /\ ws.rounds[i].failed
  /\ \E i \in 1..2 : ws.rounds[i].action = "cancel"
  /\ ws.heard # <<>>
  /\ ws.created = 3
  /\ ws.deleted = 3

\* the messages of the last step that carry a round number of a finish
RoundOf(msg) ==
  IF msg.type = "closing" THEN {msg.total_rounds}
  ELSE IF msg.type = "result" \/ (msg.type = "error" /\ "round" \in DOMAIN msg)
  THEN {msg.round}
  ELSE {}

\* C37: the round of a result message and of the error message of a failed
\* finish, and total_rounds of the closing message, are the number of finish
\* actions handled so far on the connection, failed ones included and
\* cancels not; each finish action raises the number by one
C37_RoundIsTheFinishCount ==
  /\ [](/\ ws.phase # "none" => ws.roundCount = Actions(ws.rounds, "finish")
        /\ \A k \in 1..Len(out) :
             \A round \in RoundOf(out[k]) : round = Actions(ws.rounds, "finish"))
  /\ [][Receive(FinishFrame, FinishFaults) =>
          /\ ws'.roundCount = ws.roundCount + 1
          /\ out'[1].round = ws.roundCount + 1]_vars

\* the second finish, after a failed one and a cancel, was answered by the
\* result of round 2
C37_Witness ==
  /\ ws.phase = "open"
  /\ Len(ws.rounds) = 3
  /\ ws.rounds[1].action = "finish" /\ ws.rounds[1].failed
  /\ ws.rounds[2].action = "cancel"
  /\ ws.rounds[3].action = "finish" /\ ~ws.rounds[3].failed
  /\ Len(out) = 2
  /\ out[1].type = "result" /\ out[1].round = 2

-----------------------------------------------------------------------------
(* Properties of the conversion of scores (under SpecSearch) *)

\* the last response is the result of a search
Searching == resp.op = "search"

\* the score kept within [-1, 1]
WithinUnit(raw) == IF raw < -100 THEN -100 ELSE IF raw > 100 THEN 100 ELSE raw

\* the positions of the answer whose point carries a payload and whose
\* score, kept within [-1, 1], reaches the threshold
Passing(searchPoints, threshold) ==
  {i \in DOMAIN searchPoints : /\ searchPoints[i].payload # NilPayload
                               /\ WithinUnit(searchPoints[i].score) >= threshold}

\* C16: every confidence a search returns lies in [-1, 1]: a score below -1
\* is reported as -1, a score above 1 as 1, and a point is returned exactly
\* when its score kept within [-1, 1], not its raw score, reaches the
\* threshold
C16_ConfidenceIsClamped ==
  Searching =>
    LET searchPoints == resp.req.searchPoints
        passing == Passing(searchPoints, resp.req.threshold)
    IN  /\ \A k \in DOMAIN resp.result : resp.result[k].Confidence \in -100..100
        /\ Len(resp.result) = Cardinality(passing)
        /\ \A i \in passing :
             LET k == Cardinality({j \in passing : j <= i})
             IN  resp.result[k].Confidence = WithinUnit(searchPoints[i].score)

\* scores 1.5 and -1.5 were both returned under threshold -1, as 1 and -1
C16_Witness ==
  /\ Searching
  /\ Len(resp.req.searchPoints) = 2
  /\ resp.req.searchPoints[1].score = 150
  /\ resp.req.searchPoints[2].score = -150
  /\ resp.req.threshold = -100
  /\ Len(resp.result) = 2
  /\ resp.result[1].Confidence = 100
  /\ resp.result[2].Confidence = -100
-----------------------------------------------------------------------------
(* Properties of the VAD trimming (under SpecTrim) *)

\* the last response is a trimmed buffer
Trimming == resp.op = "trim" /\ resp.err = ""

\* round(SR * 100 / 1000), halves rounded up
EdgeSamples(sampleRate) == (sampleRate * 100 + 500) \div 1000

\* C30: the trimming returns an empty buffer when no frame is classified as
\* speech, and otherwise the slice of the input from max(0, start of the
\* first speech frame - edge_samples) to min(len, end of the last speech
\* frame + edge_samples), with edge_samples = round(SR * 100 / 1000); the
\* result holds every speech frame and is no longer than the input
C30_TrimKeepsSpeechAndEdges ==
  Trimming =>
    LET audio == resp.req.audio
        n == Len(audio)
        speech == {f \in 1..NumFrames(n) : resp.req.flags[f] = 1}
        edge == EdgeSamples(resp.req.sample_rate)
    IN  IF speech = {} THEN resp.result = <<>>
        ELSE LET first == (SetMin(speech) - 1) * HopSize
                 last == Min(SetMax(speech) * HopSize, n)
                 from == Max(0, first - edge)
                 to == Min(n, last + edge)
             IN  /\ resp.result = SubSeq(audio, from + 1, to)
                 /\ Len(resp.result) <= n
                 /\ \A i \in (first + 1)..last :
                      \E k \in DOMAIN resp.result : resp.result[k] = audio[i]
-----------------------------------------------------------------------------
(* Properties of concurrent calls on one StreamingIdentifier (under         *)
(* SpecRace)                                                                *)

\* the goroutines between the Lock and the Unlock of a method
InBody ==
  {i \in 1..MaxGoroutines : goroutines.g[i].pc \notin {"idle", "Lock", "done"}}

\* what goroutine i did since its Lock is what its method does in one step
\* on the identifier as it was at the Lock
Atomic(i) ==
  LET me == goroutines.g[i]
  IN  CASE me.op = "AcceptAudio" ->
             LET r == AcceptAudio(me.at, me.audio)
             IN  session = r.si /\ me.err = r.err
        [] me.op = "FinishAndIdentify" ->
             \E r \in FinishAndIdentify(store, me.at, me.fault) :
               session = r.si /\ me.err = r.err /\ me.result = r.result
        [] OTHER -> session = Close(me.at).si /\ me.err = ""

\* C28: AcceptAudio, FinishAndIdentify and Close on one identifier exclude
\* one another and each takes effect as one step; an AcceptAudio that passes
\* its Lock after a FinishAndIdentify passed its own returns an error; the
\* accumulator is never used or deleted after it was deleted
C28_MethodsAreSerialized ==
  /\ Cardinality(InBody) <= 1
  /\ \A i \in 1..MaxGoroutines :
       /\ goroutines.g[i].pc = "Unlock" => Atomic(i)
       /\ (goroutines.g[i].op = "AcceptAudio" /\ goroutines.g[i].late
           /\ goroutines.g[i].pc \in {"Unlock", "done"})
          => goroutines.g[i].err # ""
  /\ ~goroutines.crashed

\* the three methods were called at once: the AcceptAudio that came after
\* the FinishAndIdentify was refused, the identification was made and Close
\* is about to return
C28_Witness ==
  \E i, j, k \in 1..MaxGoroutines :
    /\ goroutines.g[i].op = "AcceptAudio" /\ goroutines.g[i].pc = "done"
    /\ goroutines.g[i].late
    /\ goroutines.g[i].err = "stream already finished"
    /\ goroutines.g[j].op = "FinishAndIdentify" /\ goroutines.g[j].pc = "done"
    /\ goroutines.g[j].err = "" /\ goroutines.g[j].result.Identified
    /\ goroutines.g[k].op = "Close" /\ goroutines.g[k].pc = "Unlock"

-----------------------------------------------------------------------------
(* Properties of the VAD trim operations (under SpecVad) *)

VadCalled == resp.op \in {"trim-speech", "trim-edges"}

\* C33: when no instance could be acquired the call fails and puts nothing
\* into the pool; otherwise the instance is put back exactly once, whether
\* the call succeeds, the instance is of another type or the classifier
\* fails on a frame; and when the classifier fails on a frame the call
\* returns an error and no audio
C33_InstanceGoesBack ==
  VadCalled =>
    /\ resp.fault = "vad-get" => resp.err # "" /\ resp.pool.put = 0
    /\ resp.fault # "vad-get" => resp.pool.got = 1 /\ resp.pool.put = 1
    /\ resp.fault = "vad-process" => resp.err # "" /\ resp.result = <<>>

\* the classifier failed on the second frame, after a first frame of speech,
\* in the operation that keeps the speech frames
C33_Witness ==
  /\ resp.op = "trim-speech" /\ resp.fault = "vad-process"
  /\ resp.req.failAt = 2 /\ resp.req.flags[1] = 1
  /\ Len(resp.frames) = 2
  /\ resp.pool = [got |-> 1, put |-> 1]
  /\ resp.err # "" /\ resp.result = <<>>

\* the sample the j-th value of frame f was made from
SampleOf(f, j) == resp.req.audio[(f - 1) * HopSize + j]

Sign(x) == IF x > 0 THEN 1 ELSE IF x < 0 THEN -1 ELSE 0

\* C34: every 16-bit value handed to the classifier stands for clamp(f, -1,
\* 1) * 32768 of its sample f without wrap-around: it is that product when
\* the product is an int16, it lies within -32768..32767 and it has the sign
\* of f
C34_Int16WithoutWrap ==
  VadCalled =>
    \A f \in 1..Len(resp.frames) :
      \A j \in 1..Len(resp.frames[f]) :
        /\ Saturate(SampleOf(f, j)) * 32 \in -32768..32767
             => resp.frames[f][j] = Saturate(SampleOf(f, j)) * 32
        /\ resp.frames[f][j] \in -32768..32767
        /\ Sign(resp.frames[f][j]) = Sign(SampleOf(f, j))

-----------------------------------------------------------------------------
(* Properties of enrolments among deletions (under SpecSamples) *)

\* C39: in a sequence of enrolments and deletions made one at a time, each
\* successful enrolment leaves every point that was stored in place and adds
\* one point to those of its (uid, agent_id, speaker_id)
C39_EnrolAddsOnePoint ==
  (resp.op = "register" /\ resp.status = 200) =>
    /\ resp.before \subseteq store
    /\ TripleCount(store, resp.req.uid, resp.req.agent_id, resp.req.speaker_id)
         = TripleCount(resp.before, resp.req.uid, resp.req.agent_id,
                       resp.req.speaker_id) + 1

-----------------------------------------------------------------------------
(* Properties of enrolments made at once (under SpecEnrol) *)

\* the workers that enrolled a sample of the speaker of req
Enrolled(req) ==
  {i \in 1..MaxWorkers :
     /\ goroutines.w[i].pc = "done" /\ goroutines.w[i].err = ""
     /\ goroutines.w[i].req.uid = req.uid
     /\ goroutines.w[i].req.agent_id = req.agent_id
     /\ goroutines.w[i].req.speaker_id = req.speaker_id}

\* C38: once the enrolments made at once have returned, the store holds for
\* each speaker as many more points as enrolments of that speaker
\* succeeded: none wrote over the point of another
C38_ConcurrentEnrolmentsPersist ==
  (\A i \in 1..MaxWorkers : goroutines.w[i].pc = "done") =>
    \A req \in EnrolRequests :
      TripleCount(store, req.uid, req.agent_id, req.speaker_id)
        = TripleCount(goroutines.initial, req.uid, req.agent_id, req.speaker_id)
          + Cardinality(Enrolled(req))

====
